---- MODULE Spec2Model ----
(***************************************************************************)
(* FigmaForge: design-tree-to-stylesheet translation.                      *)
(*                                                                         *)
(* Python strings that the code manipulates (names, ids, class names, CSS  *)
(* values) are sequences of one-character strings; CSS property names,     *)
(* node types and enum keywords, which the code only compares, are plain   *)
(* strings.  A Python dict that is read in insertion order is a sequence   *)
(* of [k, v] entries.  Numbers of the design file are integers (the JSON   *)
(* of the test fixtures), opacities and colour channels are hundredths.    *)
(***************************************************************************)
EXTENDS Integers, Sequences, FiniteSets, TLC

VARIABLES
    component_name,     \* SCSSComponentGenerator.component_name
    root_bounds,        \* SCSSComponentGenerator.root_bounds
    root_node,          \* SCSSComponentGenerator.root_node (<<>> is None)
    generated_classes,  \* SCSSComponentGenerator.generated_classes
    root_styles,        \* the root rule written by generate_scss
    visits,             \* the descendants _collect_node_styles visited, in order
    scss_request,       \* the (component name, node) generate_scss is called with
    use_percentage_widths, \* ResponsiveLayoutConverter.use_percentage_widths
    use_rem,            \* ResponsiveLayoutConverter.use_rem
    root_width,         \* ResponsiveLayoutConverter.root_width
    root_height,        \* ResponsiveLayoutConverter.root_height
    layout_request,     \* the nodes convert_layout is called with
    called,             \* the convert_layout calls made so far
    result,             \* value returned by the last convert_layout call
    components,         \* FigmaNormalizer.components
    all_nodes,          \* FigmaNormalizer.all_nodes
    file_data,          \* the file normalize_file is called with
    normalize_result,   \* value returned by normalize_file (<<>> before the call)
    colors,             \* TokenExtractor.colors
    typography,         \* TokenExtractor.typography
    spacing_values,     \* TokenExtractor.spacing_values
    radii,              \* TokenExtractor.radii
    shadows,            \* TokenExtractor.shadows
    font_families,      \* TokenExtractor.font_families
    token_nodes,        \* the node map extract_tokens is called with
    tokens,             \* value returned by extract_tokens (<<>> before the call)
    variant_node,       \* the node extract_variants is called with
    variant_result,     \* value returned by extract_variants (<<>> before the call)
    states,             \* value returned by extract_states (<<>> before the call)
    gen_request,        \* the call generate_component is made with
    dirs,               \* directories on disk (a set of paths)
    files,              \* files on disk: path -> content
    gen_result,         \* outcome of generate_component (<<>> before the call)
    token_calls,        \* number of extract_tokens calls made on the extractor
    tokens_rerun,       \* value returned by an independent second run (<<>> before it)
    scss_calls,         \* number of generate_scss calls made on the generator
    scss_output,        \* lines of the last generate_scss output
    request_call,       \* the call _make_request is made with
    retry_count,        \* retry_count of the innermost _make_request call
    request_log,        \* requests sent and sleeps taken by the call, in order
    request_outcome,    \* how the call ended (<<>> while it runs)
    _cache,             \* the global _cache of cache.py (<<>> is None)
    clients,            \* the FigmaClient objects constructed in the process
    cache_dir,          \* the entries under ~/.figmaforge/cache: key -> data and age
    remote,             \* lastModified of the file at Figma
    client_log,         \* the last get_file or get_file_nodes call and what it did
    watch_components,   \* the (node id, name) pairs watch was started with
    last_modified,      \* watch's last_modified (<<>> is None)
    regenerated,        \* per node id, the last regeneration: the data it was fed and its outcome
    watch_round,        \* parity of the number of iterations the loop of watch has made
    regen_request,      \* the component that is regenerated: name, node and what the user wrote
    component_files,    \* the .component.ts and .component.scss files: text as lines
    regen_runs,         \* number of regenerations made
    after_first         \* the files as the first regeneration left them (<<>> before it)

vars == <<component_name, root_bounds, root_node, generated_classes,
          root_styles, visits, scss_request, use_percentage_widths, use_rem,
          root_width, root_height, layout_request, called, result,
          components, all_nodes, file_data, normalize_result,
          colors, typography, spacing_values, radii, shadows, font_families,
          token_nodes, tokens, variant_node, variant_result,
          states,
          gen_request,
          dirs,
          files,
          gen_result,
          token_calls,
          tokens_rerun,
          scss_calls,
          scss_output,
          request_call,
          retry_count,
          request_log,
          request_outcome,
          _cache,
          clients,
          cache_dir,
          remote,
          client_log,
          watch_components,
          last_modified,
          regenerated,
          watch_round,
          regen_request,
          component_files,
          regen_runs,
          after_first>>

scssVars == <<component_name, root_bounds, root_node, generated_classes,
              root_styles, visits, scss_request>>

respVars == <<use_percentage_widths, use_rem, root_width, root_height,
              layout_request, called, result>>

normVars == <<components, all_nodes, file_data, normalize_result>>

tokenVars == <<colors, typography, spacing_values, radii, shadows, font_families,
               token_nodes, tokens>>

variantVars == <<variant_node, variant_result>>

stateVars == <<states>>

genVars == <<gen_request, dirs, files, gen_result>>

runVars == <<token_calls, tokens_rerun>>

scssRunVars == <<scss_calls, scss_output>>

requestVars == <<request_call, retry_count, request_log, request_outcome>>

cacheVars == <<_cache, clients, cache_dir, remote, client_log>>

watchVars == <<watch_components, last_modified, regenerated, watch_round>>

regenVars == <<regen_request, component_files, regen_runs, after_first>>

serviceVars == <<stateVars, genVars, runVars, scssRunVars, requestVars, cacheVars, watchVars, regenVars>>

\* a FigmaNormalizer(), a TokenExtractor() and a VariantExtractor() nobody calls
IdleExtractors ==
    /\ components = <<>> /\ all_nodes = <<>>
    /\ file_data = <<>> /\ normalize_result = <<>>
    /\ colors = {} /\ typography = <<>> /\ spacing_values = {} /\ radii = {}
    /\ shadows = <<>> /\ font_families = {}
    /\ token_nodes = <<>> /\ tokens = <<>>
    /\ variant_node = <<>> /\ variant_result = <<>>

\* the extractors, generators and clients of the later sections, not yet called
IdleStates ==
    /\ states = <<>>

IdleComponentGenerator ==
    /\ gen_request = <<>>
    /\ dirs = {}
    /\ files = <<>>
    /\ gen_result = <<>>

IdleTokenRuns ==
    /\ token_calls = 0
    /\ tokens_rerun = <<>>

IdleScssRuns ==
    /\ scss_calls = 0
    /\ scss_output = <<>>

IdleRequest ==
    /\ request_call = <<>>
    /\ retry_count = 0
    /\ request_log = <<>>
    /\ request_outcome = <<>>

IdleCache ==
    /\ _cache = <<>>
    /\ clients = <<>>
    /\ cache_dir = <<>>
    /\ remote = 0
    /\ client_log = <<>>

IdleWatch ==
    /\ watch_components = <<>>
    /\ last_modified = <<>>
    /\ regenerated = <<>>
    /\ watch_round = 0

IdleRegenerate ==
    /\ regen_request = <<>>
    /\ component_files = <<>>
    /\ regen_runs = 0
    /\ after_first = <<>>

IdleServices ==
    /\ IdleStates
    /\ IdleComponentGenerator
    /\ IdleTokenRuns
    /\ IdleScssRuns
    /\ IdleRequest
    /\ IdleCache
    /\ IdleWatch
    /\ IdleRegenerate

-----------------------------------------------------------------------------
(* Characters and strings *)

UpperChars == <<"A","B","C","D","E","F","G","H","I","J","K","L","M",
                "N","O","P","Q","R","S","T","U","V","W","X","Y","Z","É">>

LowerChars == <<"a","b","c","d","e","f","g","h","i","j","k","l","m",
                "n","o","p","q","r","s","t","u","v","w","x","y","z","é">>

DigitChars == <<"0","1","2","3","4","5","6","7","8","9">>

Range(s) == {s[i] : i \in 1..Len(s)}

IndexOf(s, c) == CHOOSE i \in 1..Len(s) : s[i] = c

\* str.lower() on one character
LowerChar(c) ==
    IF c \in Range(UpperChars) THEN LowerChars[IndexOf(UpperChars, c)] ELSE c

\* str.lower()
Lower(s) == [i \in 1..Len(s) |-> LowerChar(s[i])]

\* str.isalnum() on one character
IsAlnum(c) ==
    c \in Range(UpperChars) \cup Range(LowerChars) \cup Range(DigitChars)

\* str.replace(old, new) for one-character old and new
ReplaceChar(s, old, new) == [i \in 1..Len(s) |-> IF s[i] = old THEN new ELSE s[i]]

\* "".join(c for c in s if c.isalnum() or c == "-")
KeepAlnumDash(s) == SelectSeq(s, LAMBDA c : IsAlnum(c) \/ c = "-")

RECURSIVE LStripChar(_, _)
LStripChar(s, c) ==
    IF Len(s) > 0 /\ Head(s) = c THEN LStripChar(Tail(s), c) ELSE s

RECURSIVE RStripChar(_, _)
\* str.rstrip(c)
RStripChar(s, c) ==
    IF Len(s) > 0 /\ s[Len(s)] = c
    THEN RStripChar(SubSeq(s, 1, Len(s) - 1), c)
    ELSE s

\* str.strip(c)
StripChar(s, c) == RStripChar(LStripChar(s, c), c)

\* sub in s
Contains(s, sub) ==
    \E i \in 1..(Len(s) - Len(sub) + 1) : SubSeq(s, i, i + Len(sub) - 1) = sub

\* s[-n:]
LastN(s, n) == IF Len(s) <= n THEN s ELSE SubSeq(s, Len(s) - n + 1, Len(s))

RECURSIVE NatStr(_)
NatStr(n) ==
    IF n < 10 THEN <<DigitChars[n + 1]>>
    ELSE NatStr(n \div 10) \o <<DigitChars[(n % 10) + 1]>>

\* f"{n}" for an integer n
IntStr(n) == IF n < 0 THEN <<"-">> \o NatStr(-n) ELSE NatStr(n)

\* f"{n}px"
Px(n) == IntStr(n) \o <<"p","x">>

-----------------------------------------------------------------------------
(* Insertion-ordered dicts *)

Keys(d) == {d[i].k : i \in 1..Len(d)}

Has(d, key) == key \in Keys(d)

Get(d, key) == d[CHOOSE i \in 1..Len(d) : d[i].k = key].v

\* d[key] = val
Put(d, key, val) ==
    IF Has(d, key)
    THEN [i \in 1..Len(d) |-> IF d[i].k = key THEN [k |-> key, v |-> val] ELSE d[i]]
    ELSE Append(d, [k |-> key, v |-> val])

RECURSIVE Update(_, _)
\* d.update(other)
Update(d, other) ==
    IF other = <<>> THEN d
    ELSE Update(Put(d, Head(other).k, Head(other).v), Tail(other))

-----------------------------------------------------------------------------
(* Figma nodes (src/figma/types.py).  An absent key is the value the code's *)
(* .get default gives it; an absent bounding box has present = FALSE; an    *)
(* absent constraint is "ABSENT"; an absent corner-radius array is <<>>.    *)

NoBox == [present |-> FALSE, x |-> 0, y |-> 0, width |-> 0, height |-> 0]

Box(x, y, w, h) == [present |-> TRUE, x |-> x, y |-> y, width |-> w, height |-> h]

\* the text style of a node without the style key: each field holds the
\* default the code reads for the absent key, <<>> for no fontFamily
NoStyle ==
    [fontFamily |-> <<>>, fontSize |-> 16, fontWeight |-> 400,
     lineHeightUnit |-> "PIXELS", lineHeightPx |-> 24, letterSpacing |-> 0]

DefaultNode ==
    [id |-> <<>>, name |-> <<"e","l","e","m","e","n","t">>, type |-> "",
     absoluteBoundingBox |-> NoBox,
     fills |-> <<>>, strokes |-> <<>>, strokeWeight |-> 1,
     cornerRadius |-> 0, rectangleCornerRadii |-> <<>>, opacity |-> 100,
     layoutMode |-> "NONE", layoutWrap |-> "NO_WRAP", itemSpacing |-> 0,
     primaryAxisAlignItems |-> "MIN", counterAxisAlignItems |-> "MIN",
     paddingTop |-> 0, paddingRight |-> 0, paddingBottom |-> 0, paddingLeft |-> 0,
     primaryAxisSizingMode |-> "AUTO", counterAxisSizingMode |-> "AUTO",
     layoutGrow |-> 0,
     constraints |-> [horizontal |-> "ABSENT", vertical |-> "ABSENT"],
     componentPropertyDefinitions |-> <<>>,
     style |-> NoStyle,
     children |-> <<>>]

\* a paint: colour channels and opacity in hundredths
SolidFill(r, g, b, a, op) ==
    [type |-> "SOLID", visible |-> TRUE, hasColor |-> TRUE,
     color |-> [r |-> r, g |-> g, b |-> b, a |-> a], opacity |-> op]

-----------------------------------------------------------------------------
(* Colours (scss_generator.py) *)

HexChars == <<"0","1","2","3","4","5","6","7","8","9","A","B","C","D","E","F">>

\* f"{n:02X}"
Hex2(n) == <<HexChars[(n \div 16) + 1], HexChars[(n % 16) + 1]>>

\* int(c * 255) for a channel of c hundredths
Channel(c) == (c * 255) \div 100

_rgba_to_hex(color) ==
    <<"#">> \o Hex2(Channel(color.r)) \o Hex2(Channel(color.g)) \o Hex2(Channel(color.b))
        \o (IF color.a < 100 THEN Hex2(Channel(color.a)) ELSE <<>>)

\* f"{a}" for the float a = p / 10000
FloatStr(p) ==
    LET whole == p \div 10000
        frac  == p % 10000
        d4    == <<DigitChars[(frac \div 1000) + 1], DigitChars[((frac \div 100) % 10) + 1],
                   DigitChars[((frac \div 10) % 10) + 1], DigitChars[(frac % 10) + 1]>>
        cut   == RStripChar(d4, "0")
    IN  NatStr(whole) \o <<".">> \o (IF cut = <<>> THEN <<"0">> ELSE cut)

_rgba_to_css(color, opacity) ==
    <<"r","g","b","a","(">> \o IntStr(Channel(color.r)) \o <<",", " ">>
        \o IntStr(Channel(color.g)) \o <<",", " ">>
        \o IntStr(Channel(color.b)) \o <<",", " ">>
        \o FloatStr(color.a * opacity) \o <<")">>

-----------------------------------------------------------------------------
(* Fixed strategy: LayoutConverter (layout_converter.py) *)

\* _convert_relative_positioning without the subtraction of the root's origin
_convert_relative_positioning_unshifted(node, rb) ==
    LET nb == node.absoluteBoundingBox
        s0 == <<[k |-> "position", v |-> <<"a","b","s","o","l","u","t","e">>]>>
    IN  IF nb.present /\ rb.present
        THEN s0 \o <<[k |-> "left",   v |-> Px(nb.x)],
                     [k |-> "top",    v |-> Px(nb.y)],
                     [k |-> "width",  v |-> Px(nb.width)],
                     [k |-> "height", v |-> Px(nb.height)]>>
        ELSE s0

_convert_relative_positioning(node, rb) ==
    LET nb == node.absoluteBoundingBox
        s0 == <<[k |-> "position", v |-> <<"a","b","s","o","l","u","t","e">>]>>
    IN  IF nb.present /\ rb.present
        THEN s0 \o <<[k |-> "left",   v |-> Px(nb.x - rb.x)],
                     [k |-> "top",    v |-> Px(nb.y - rb.y)],
                     [k |-> "width",  v |-> Px(nb.width)],
                     [k |-> "height", v |-> Px(nb.height)]>>
        ELSE s0

_convert_exact_sizing(node) ==
    LET b == node.absoluteBoundingBox
    IN  IF b.present
        THEN (IF b.width  # 0 THEN <<[k |-> "width",  v |-> Px(b.width)]>>  ELSE <<>>)
          \o (IF b.height # 0 THEN <<[k |-> "height", v |-> Px(b.height)]>> ELSE <<>>)
        ELSE <<>>

\* align_map.get(a, "flex-start")
AlignCss(a) ==
    CASE a = "CENTER"        -> <<"c","e","n","t","e","r">>
      [] a = "MAX"           -> <<"f","l","e","x","-","e","n","d">>
      [] a = "SPACE_BETWEEN" -> <<"s","p","a","c","e","-","b","e","t","w","e","e","n">>
      [] a = "STRETCH"       -> <<"s","t","r","e","t","c","h">>
      [] OTHER               -> <<"f","l","e","x","-","s","t","a","r","t">>

DirectionCss(mode) ==
    IF mode = "HORIZONTAL" THEN <<"r","o","w">> ELSE <<"c","o","l","u","m","n">>

_convert_flexbox(node) ==
    <<[k |-> "display", v |-> <<"f","l","e","x">>],
      [k |-> "flex-direction", v |-> DirectionCss(node.layoutMode)]>>
    \o (IF node.itemSpacing > 0 THEN <<[k |-> "gap", v |-> Px(node.itemSpacing)]>> ELSE <<>>)
    \o <<[k |-> "justify-content", v |-> AlignCss(node.primaryAxisAlignItems)],
         [k |-> "align-items",     v |-> AlignCss(node.counterAxisAlignItems)]>>

AllPaddingEqual(node) ==
    /\ node.paddingTop = node.paddingRight
    /\ node.paddingRight = node.paddingBottom
    /\ node.paddingBottom = node.paddingLeft

_convert_padding(node) ==
    IF AllPaddingEqual(node)
    THEN (IF node.paddingTop > 0 THEN <<[k |-> "padding", v |-> Px(node.paddingTop)]>> ELSE <<>>)
    ELSE (IF node.paddingTop > 0
            THEN <<[k |-> "padding-top", v |-> Px(node.paddingTop)]>> ELSE <<>>)
      \o (IF node.paddingRight > 0
            THEN <<[k |-> "padding-right", v |-> Px(node.paddingRight)]>> ELSE <<>>)
      \o (IF node.paddingBottom > 0
            THEN <<[k |-> "padding-bottom", v |-> Px(node.paddingBottom)]>> ELSE <<>>)
      \o (IF node.paddingLeft > 0
            THEN <<[k |-> "padding-left", v |-> Px(node.paddingLeft)]>> ELSE <<>>)

\* parent is <<>> (None) or <<node>>; rb is <<>> (None) or <<box>>
LayoutConverter_convert_layout(node, parent, rb, sibling_index, total_siblings) ==
    LET bounds == IF rb = <<>> THEN parent[1].absoluteBoundingBox ELSE rb[1]
        s1 == IF parent = <<>>
              THEN Update(<<[k |-> "position", v |-> <<"r","e","l","a","t","i","v","e">>]>>,
                          _convert_exact_sizing(node))
              ELSE Put(Update(<<>>, _convert_relative_positioning(node, bounds)),
                       "z-index", IntStr(sibling_index + 1))
        s2 == IF node.layoutMode \in {"HORIZONTAL", "VERTICAL"}
              THEN Update(s1, _convert_flexbox(node))
              ELSE s1
    IN  Update(s2, _convert_padding(node))

-----------------------------------------------------------------------------
(* Stylesheet assembly: SCSSComponentGenerator (scss_generator.py) *)

\* the duplicate-prone names of _generate_class_name
duplicates ==
    << <<"b","a","c","k","g","r","o","u","n","d">>,
       <<"r","e","c","t","a","n","g","l","e">>,
       <<"g","r","o","u","p">>,
       <<"f","r","a","m","e">>,
       <<"v","e","c","t","o","r">>,
       <<"p","a","t","h">>,
       <<"l","a","y","e","r">>,
       <<"t","e","x","t","-","f","i","e","l","d">> >>

\* name.lower().replace(" ", "-").replace("/", "-"), filtered, stripped of "-"
SanitizedName(name) ==
    StripChar(KeepAlnumDash(ReplaceChar(ReplaceChar(Lower(name), " ", "-"), "/", "-")), "-")

\* node_id.replace(":", "-").replace(";", "-")[-6:].lower()
IdSuffix(node_id) ==
    Lower(LastN(ReplaceChar(ReplaceChar(node_id, ":", "-"), ";", "-"), 6))

IsDuplicateProne(class_name) ==
    \E i \in 1..Len(duplicates) : Contains(class_name, duplicates[i])

\* _generate_class_name without the id suffix
_generate_class_name_unsuffixed(cname, node) ==
    cname \o <<"_","_">> \o SanitizedName(node.name)

_generate_class_name(cname, node) ==
    LET base == SanitizedName(node.name)
        class_name == IF IsDuplicateProne(base)
                      THEN base \o <<"-">> \o IdSuffix(node.id)
                      ELSE base
    IN  cname \o <<"_","_">> \o class_name

\* the "Background color" block
BackgroundStyles(styles, node) ==
    IF node.fills = <<>> THEN styles
    ELSE LET fill == node.fills[1]
         IN  IF fill.visible /\ fill.type = "SOLID" /\ fill.hasColor /\ node.type # "TEXT"
             THEN IF fill.opacity < 100
                  THEN LET s1 == Put(styles, "background-color",
                                     _rgba_to_css(fill.color, fill.opacity))
                       IN  IF Has(s1, "z-index") THEN Put(s1, "z-index", <<"3">>) ELSE s1
                  ELSE Put(styles, "background-color", _rgba_to_hex(fill.color))
             ELSE styles

\* the "Border" block
BorderStyles(styles, node) ==
    IF node.strokes = <<>> THEN styles
    ELSE LET stroke == node.strokes[1]
         IN  IF stroke.visible /\ stroke.type = "SOLID" /\ stroke.hasColor
             THEN Put(styles, "border",
                      Px(node.strokeWeight) \o <<" ","s","o","l","i","d"," ">>
                          \o _rgba_to_hex(stroke.color))
             ELSE styles

RECURSIVE JoinPx(_)
\* " ".join(f"{r}px" for r in radii)
JoinPx(corner_radii) ==
    IF Len(corner_radii) = 1 THEN Px(corner_radii[1])
    ELSE Px(Head(corner_radii)) \o <<" ">> \o JoinPx(Tail(corner_radii))

\* the "Border radius" block
BorderRadiusStyles(styles, node) ==
    LET corner_radii == node.rectangleCornerRadii
        s1 == IF node.cornerRadius > 0
              THEN Put(styles, "border-radius", Px(node.cornerRadius))
              ELSE styles
    IN  IF Len(corner_radii) = 4 /\ ~(\A i \in 1..4 : corner_radii[i] = corner_radii[1])
        THEN Put(s1, "border-radius", JoinPx(corner_radii))
        ELSE s1

\* the "Opacity" block: str(opacity) of a float below 1
OpacityStyles(styles, node) ==
    IF node.opacity < 100
    THEN Put(styles, "opacity", FloatStr(node.opacity * 100))
    ELSE styles

\* parent is <<>> (None) or <<node>>; rb is self.root_bounds
_generate_node_styles(node, parent, is_root, sibling_index, total_siblings, rb) ==
    LET s0 == IF is_root
              THEN <<[k |-> "box-sizing",
                      v |-> <<"b","o","r","d","e","r","-","b","o","x">>]>>
              ELSE <<>>
        s1 == Update(s0, LayoutConverter_convert_layout(node, parent, <<rb>>,
                                                        sibling_index, total_siblings))
    IN  OpacityStyles(BorderRadiusStyles(BorderStyles(BackgroundStyles(s1, node), node),
                                         node), node)

\* self.generated_classes[class_name] = styles, when styles is not empty
StoreRule(classes, class_name, styles) ==
    IF styles # <<>> THEN Put(classes, class_name, styles) ELSE classes

\* One iteration of the loop of _collect_node_styles up to the recursive call:
\* acc.classes is self.generated_classes; acc.visits records, in order, the
\* child, its parent's id, its index, and the class name and styles computed
\* for it.
VisitChild(acc, cname, rootn, node, i, rb) ==
    LET child  == node.children[i]
        cls    == _generate_class_name(cname, child)
        styles == _generate_node_styles(child, <<rootn>>, FALSE, i - 1,
                                        Len(node.children), rb)
    IN  [classes |-> StoreRule(acc.classes, cls, styles),
         visits  |-> Append(acc.visits,
                            [node |-> child, parent |-> node.id, index |-> i - 1,
                             cls |-> cls, styles |-> styles])]

RECURSIVE CollectChildren(_, _, _, _, _, _)
RECURSIVE CollectPassThrough(_, _, _, _, _)
RECURSIVE _collect_node_styles(_, _, _, _)

\* the loop over the children of a document/canvas node, from child i on
CollectPassThrough(acc, cname, rootn, node, i) ==
    IF i > Len(node.children) THEN acc
    ELSE CollectPassThrough(_collect_node_styles(acc, cname, rootn, node.children[i]),
                            cname, rootn, node, i + 1)

\* the loop over the children of any other node, from child i on
CollectChildren(acc, cname, rootn, node, i, rb) ==
    IF i > Len(node.children) THEN acc
    ELSE CollectChildren(_collect_node_styles(VisitChild(acc, cname, rootn, node, i, rb),
                                              cname, rootn, node.children[i]),
                         cname, rootn, node, i + 1, rb)

\* rootn is self.root_node, whose bounding box is self.root_bounds
_collect_node_styles(acc, cname, rootn, node) ==
    IF node.type \in {"DOCUMENT", "CANVAS"}
    THEN CollectPassThrough(acc, cname, rootn, node, 1)
    ELSE CollectChildren(acc, cname, rootn, node, 1, rootn.absoluteBoundingBox)

-----------------------------------------------------------------------------
(* Number formatting *)

Abs(n) == IF n < 0 THEN -n ELSE n

\* n / d rounded to the nearest integer, ties to even (n >= 0, d > 0)
RoundDiv(n, d) ==
    LET q == n \div d
        r == n % d
    IN  IF 2 * r < d THEN q
        ELSE IF 2 * r > d THEN q + 1
        ELSE IF q % 2 = 0 THEN q ELSE q + 1

RECURSIVE Pow10(_)
Pow10(k) == IF k = 0 THEN 1 ELSE 10 * Pow10(k - 1)

RECURSIVE Digits(_, _)
\* the k low decimal digits of n, zero padded
Digits(n, k) ==
    IF k = 0 THEN <<>> ELSE Digits(n \div 10, k - 1) \o <<DigitChars[(n % 10) + 1]>>

\* f"{num / den:.{k}f}" (den > 0)
Fixed(num, den, k) ==
    LET t == RoundDiv(Abs(num) * Pow10(k), den)
    IN  (IF num < 0 THEN <<"-">> ELSE <<>>)
          \o NatStr(t \div Pow10(k)) \o <<".">> \o Digits(t % Pow10(k), k)

-----------------------------------------------------------------------------
(* CSS utilities (utils/css.py) *)

RECURSIVE JoinWith(_, _)
\* sep.join(parts)
JoinWith(parts, sep) ==
    IF parts = <<>> THEN <<>>
    ELSE IF Len(parts) = 1 THEN parts[1]
    ELSE Head(parts) \o sep \o JoinWith(Tail(parts), sep)

\* utils.css._rgba_to_css: hex when the alpha is at least 0.99, else rgba()
\* with the alpha to two decimals
css_rgba_to_css(color, opacity) ==
    LET a == color.a * opacity
    IN  IF a >= 9900
        THEN <<"#">> \o Hex2(Channel(color.r)) \o Hex2(Channel(color.g))
                 \o Hex2(Channel(color.b))
        ELSE <<"r","g","b","a","(">> \o IntStr(Channel(color.r)) \o <<","," ">>
                 \o IntStr(Channel(color.g)) \o <<","," ">>
                 \o IntStr(Channel(color.b)) \o <<","," ">>
                 \o Fixed(a, 10000, 2) \o <<")">>

\* f"{_rgba_to_css(color)} {position:.0f}%" for a stop at position hundredths
GradientStopCss(stop) ==
    css_rgba_to_css(stop.color, 100) \o <<" ">> \o NatStr(stop.position) \o <<"%">>

\* a gradient without handle positions keeps the default angle of 180 degrees
_linear_gradient_to_css(fill) ==
    IF fill.gradientStops = <<>> THEN <<>>
    ELSE <<"l","i","n","e","a","r","-","g","r","a","d","i","e","n","t","(","1","8","0","d","e","g",","," ">>
            \o JoinWith([i \in 1..Len(fill.gradientStops) |->
                            GradientStopCss(fill.gradientStops[i])], <<","," ">>)
            \o <<")">>

\* solid and linear-gradient paints; any other type gives ""
fill_to_background(fill) ==
    IF fill.type = "SOLID" THEN css_rgba_to_css(fill.color, fill.opacity)
    ELSE IF fill.type = "GRADIENT_LINEAR" THEN _linear_gradient_to_css(fill)
    ELSE <<>>

-----------------------------------------------------------------------------
(* Responsive strategy: ResponsiveLayoutConverter (responsive_layout.py).   *)
(* A division by zero raises ZeroDivisionError: err = TRUE.                 *)

\* f"{num / den * 100:.1f}%"
DivPct(num, den) ==
    IF den = 0 THEN [err |-> TRUE, s |-> <<>>]
    ELSE [err |-> FALSE, s |-> Fixed(num * 100, den, 1) \o <<"%">>]

\* PctOr without the test of den
PctOr_unguarded(num, den, dflt) == DivPct(num, den)

\* f"{((num / den * 100) if den else dflt):.1f}%"
PctOr(num, den, dflt) ==
    IF den # 0 THEN DivPct(num, den)
    ELSE [err |-> FALSE, s |-> Fixed(dflt, 1, 1) \o <<"%">>]

_to_unit(rem, px_value) ==
    IF rem
    THEN RStripChar(RStripChar(Fixed(px_value, 16, 3) \o <<"r","e","m">>, "0"), ".")
    ELSE Px(px_value)

_padding_styles(rem, node) ==
    IF AllPaddingEqual(node)
    THEN (IF node.paddingTop > 0
            THEN <<[k |-> "padding", v |-> _to_unit(rem, node.paddingTop)]>> ELSE <<>>)
    ELSE (IF node.paddingTop > 0
            THEN <<[k |-> "padding-top", v |-> _to_unit(rem, node.paddingTop)]>> ELSE <<>>)
      \o (IF node.paddingRight > 0
            THEN <<[k |-> "padding-right", v |-> _to_unit(rem, node.paddingRight)]>> ELSE <<>>)
      \o (IF node.paddingBottom > 0
            THEN <<[k |-> "padding-bottom", v |-> _to_unit(rem, node.paddingBottom)]>> ELSE <<>>)
      \o (IF node.paddingLeft > 0
            THEN <<[k |-> "padding-left", v |-> _to_unit(rem, node.paddingLeft)]>> ELSE <<>>)

_flexbox_container(node) ==
    <<[k |-> "display", v |-> <<"f","l","e","x">>],
      [k |-> "flex-direction", v |-> DirectionCss(node.layoutMode)]>>
    \o (IF node.layoutWrap = "WRAP"
          THEN <<[k |-> "flex-wrap", v |-> <<"w","r","a","p">>]>> ELSE <<>>)
    \o <<[k |-> "justify-content", v |-> AlignCss(node.primaryAxisAlignItems)],
         [k |-> "align-items",     v |-> AlignCss(node.counterAxisAlignItems)]>>

\* the width of a flex child: a percentage of self.root_width, or pixels
FlexWidth(pctw, rw, w) ==
    IF pctw /\ rw > 0
    THEN [k |-> "width", v |-> DivPct(w, rw).s]
    ELSE [k |-> "width", v |-> Px(w)]

_flex_child_styles(pctw, rw, node, parent) ==
    LET b      == node.absoluteBoundingBox
        grow   == IF node.layoutGrow > 0
                  THEN <<[k |-> "flex-grow", v |-> IntStr(node.layoutGrow)]>> ELSE <<>>
        flex1  == <<[k |-> "flex", v |-> <<"1">>]>>
        selfst == <<[k |-> "align-self", v |-> <<"s","t","r","e","t","c","h">>]>>
        height == <<[k |-> "height", v |-> Px(b.height)]>>
        width  == <<FlexWidth(pctw, rw, b.width)>>
    IN  IF parent.layoutMode = "HORIZONTAL"
        THEN Update(Update(grow,
                 IF node.primaryAxisSizingMode = "FIXED" THEN width
                 ELSE IF node.primaryAxisSizingMode = "FILL" THEN flex1 ELSE <<>>),
                 IF node.counterAxisSizingMode = "FIXED" THEN height
                 ELSE IF node.counterAxisSizingMode = "FILL" THEN selfst ELSE <<>>)
        ELSE Update(Update(grow,
                 IF node.primaryAxisSizingMode = "FIXED" THEN height
                 ELSE IF node.primaryAxisSizingMode = "FILL" THEN flex1 ELSE <<>>),
                 IF node.counterAxisSizingMode = "FIXED" THEN width
                 ELSE IF node.counterAxisSizingMode = "FILL" THEN selfst ELSE <<>>)

\* constraints.get(axis, "MIN")
ConstraintOf(c) == IF c = "ABSENT" THEN "MIN" ELSE c

Absolute == <<[k |-> "position", v |-> <<"a","b","s","o","l","u","t","e">>]>>

\* the horizontal half of _smart_positioning: [err, styles]
HorizontalPositioning(h, node_x, node_w, root_w) ==
    CASE h = "STRETCH" ->
           LET l == PctOr(node_x, root_w, 0)
               r == PctOr(root_w - node_x - node_w, root_w, 0)
           IN  [err |-> l.err \/ r.err,
                styles |-> Absolute \o <<[k |-> "left", v |-> l.s], [k |-> "right", v |-> r.s]>>]
      [] h = "CENTER" ->
           LET c == PctOr(2 * node_x + node_w, 2 * root_w, 50)
           IN  [err |-> c.err,
                styles |-> Absolute \o <<[k |-> "left", v |-> c.s],
                    [k |-> "transform",
                     v |-> <<"t","r","a","n","s","l","a","t","e","X","(","-","5","0","%",")">>],
                    [k |-> "width", v |-> Px(node_w)]>>]
      [] h = "MAX" ->
           [err |-> FALSE,
            styles |-> Absolute \o <<[k |-> "right", v |-> Px(root_w - node_x - node_w)],
                                     [k |-> "width", v |-> Px(node_w)]>>]
      [] h = "SCALE" ->
           LET l == PctOr(node_x, root_w, 0)
               w == PctOr(node_w, root_w, 100)
           IN  [err |-> l.err \/ w.err,
                styles |-> Absolute \o <<[k |-> "left", v |-> l.s], [k |-> "width", v |-> w.s]>>]
      [] OTHER ->
           [err |-> FALSE,
            styles |-> Absolute \o <<[k |-> "left", v |-> Px(node_x)],
                                     [k |-> "width", v |-> Px(node_w)]>>]

\* the vertical half of _smart_positioning, layered on the horizontal styles
VerticalPositioning(styles, v, node_y, node_h, root_h) ==
    CASE v = "STRETCH" ->
           LET t == PctOr(node_y, root_h, 0)
               b == PctOr(root_h - node_y - node_h, root_h, 0)
           IN  [err |-> t.err \/ b.err,
                styles |-> Put(Put(styles, "top", t.s), "bottom", b.s)]
      [] v = "CENTER" ->
           LET c == PctOr(2 * node_y + node_h, 2 * root_h, 50)
               tr == IF Has(styles, "transform")
                     THEN <<"t","r","a","n","s","l","a","t","e","(","-","5","0","%",
                            ","," ","-","5","0","%",")">>
                     ELSE <<"t","r","a","n","s","l","a","t","e","Y","(","-","5","0","%",")">>
           IN  [err |-> c.err,
                styles |-> Put(Put(Put(styles, "top", c.s), "transform", tr),
                               "height", Px(node_h))]
      [] v = "MAX" ->
           [err |-> FALSE,
            styles |-> Put(Put(styles, "bottom", Px(root_h - node_y - node_h)),
                           "height", Px(node_h))]
      [] v = "SCALE" ->
           LET t == PctOr(node_y, root_h, 0)
               h == PctOr(node_h, root_h, 100)
           IN  [err |-> t.err \/ h.err,
                styles |-> Put(Put(styles, "top", t.s), "height", h.s)]
      [] OTHER ->
           [err |-> FALSE,
            styles |-> Put(Put(styles, "top", Px(node_y)), "height", Px(node_h))]

\* rb is the root_bounds argument (present = FALSE: None or {}); rw, rh are
\* self.root_width, self.root_height
_smart_positioning(rw, rh, node, rb) ==
    LET b      == node.absoluteBoundingBox
        root_w == IF rb.present THEN rb.width ELSE rw
        root_h == IF rb.present THEN rb.height ELSE rh
        node_x == IF rb.present THEN b.x - rb.x ELSE b.x
        node_y == IF rb.present THEN b.y - rb.y ELSE b.y
        hor    == HorizontalPositioning(ConstraintOf(node.constraints.horizontal),
                                        node_x, b.width, root_w)
        ver    == VerticalPositioning(hor.styles, ConstraintOf(node.constraints.vertical),
                                      node_y, b.height, root_h)
    IN  [err |-> hor.err \/ ver.err, styles |-> ver.styles]

\* self.root_width, self.root_height after convert_layout(node, is_root=True)
RootWidthOf(node) ==
    IF node.absoluteBoundingBox.present THEN node.absoluteBoundingBox.width ELSE 1440

RootHeightOf(node) ==
    IF node.absoluteBoundingBox.present THEN node.absoluteBoundingBox.height ELSE 900

\* RootStyles without the test of the root width
RootStyles_unguarded(node) ==
    <<[k |-> "position", v |-> <<"r","e","l","a","t","i","v","e">>],
      [k |-> "width", v |-> <<"1","0","0","%">>],
      [k |-> "max-width", v |-> Px(RootWidthOf(node))],
      [k |-> "margin", v |-> <<"0"," ","a","u","t","o">>],
      [k |-> "min-height", v |-> Px(RootHeightOf(node))]>>

\* the is_root branch of convert_layout
RootStyles(node) ==
    <<[k |-> "position", v |-> <<"r","e","l","a","t","i","v","e">>],
      [k |-> "width", v |-> <<"1","0","0","%">>]>>
    \o (IF RootWidthOf(node) > 0
          THEN <<[k |-> "max-width", v |-> Px(RootWidthOf(node))]>> ELSE <<>>)
    \o <<[k |-> "margin", v |-> <<"0"," ","a","u","t","o">>],
         [k |-> "min-height", v |-> Px(RootHeightOf(node))]>>

\* convert_layout: c is the converter [use_percentage_widths, use_rem,
\* root_width, root_height] as the call finds it; parent is <<>> or <<node>>;
\* the result is [err, styles]
Responsive_convert_layout(c, node, parent, rb, is_root) ==
    LET parent_layout == IF parent = <<>> THEN "NONE" ELSE parent[1].layoutMode
        s1 == IF is_root THEN [err |-> FALSE, styles |-> RootStyles(node)]
              ELSE IF parent_layout \in {"HORIZONTAL", "VERTICAL"}
              THEN [err |-> FALSE,
                    styles |-> _flex_child_styles(c.use_percentage_widths, c.root_width,
                                                  node, parent[1])]
              ELSE _smart_positioning(c.root_width, c.root_height, node, rb)
        s2 == IF node.layoutMode \in {"HORIZONTAL", "VERTICAL"}
              THEN Update(s1.styles, _flexbox_container(node))
              ELSE s1.styles
        s3 == Update(s2, _padding_styles(c.use_rem, node))
        s4 == IF node.itemSpacing > 0
              THEN Put(s3, "gap", _to_unit(c.use_rem, node.itemSpacing))
              ELSE s3
    IN  [err |-> s1.err, styles |-> s4]

-----------------------------------------------------------------------------
(* Inputs of the stylesheet assembly: component trees *)

MaxChildren == 2

ComponentNames == { <<"m","y","-","b","u","t","t","o","n">> }

White == SolidFill(100, 100, 100, 100, 100)

Blue == SolidFill(23, 51, 96, 100, 100)

Veil == SolidFill(0, 0, 0, 100, 50)

\* element kinds: name, type, paints and corner radii
LookList ==
    << [DefaultNode EXCEPT !.name = <<"R","e","c","t","a","n","g","l","e">>,
                          !.type = "RECTANGLE", !.fills = <<Blue>>, !.cornerRadius = 8],
      [DefaultNode EXCEPT !.name = <<"R","e","c","t","a","n","g","l","e">>,
                          !.type = "RECTANGLE", !.fills = <<Veil>>,
                          !.rectangleCornerRadii = <<4, 4, 4, 4>>],
      [DefaultNode EXCEPT !.name = <<"B","u","t","t","o","n"," ","L","a","b","e","l">>,
                          !.type = "TEXT", !.fills = <<White>>],
      [DefaultNode EXCEPT !.name = <<"B","u","t","t","o","n"," ","L","a","b","e","l">>,
                          !.type = "FRAME", !.rectangleCornerRadii = <<1, 2, 3, 4>>],
      [DefaultNode EXCEPT !.name = <<"I","c","o","n","/","L","e","f","t">>,
                          !.type = "VECTOR", !.fills = <<Veil>>, !.cornerRadius = 4,
                          !.rectangleCornerRadii = <<4, 4, 4, 4>>],
      [DefaultNode EXCEPT !.name = <<"F","r","a","m","e"," ","1">>,
                          !.type = "FRAME", !.layoutMode = "HORIZONTAL",
                          !.itemSpacing = 8, !.paddingTop = 4, !.paddingLeft = 4,
                          !.cornerRadius = 2, !.rectangleCornerRadii = <<1, 2, 3, 4>>] >>

Looks == Range(LookList)

RootBoxes == { Box(0, 0, 200, 48), Box(100, 50, 200, 48) }

\* where the children lie: stacked from (24, 12), or a row of rules from (110, 60)
Placements == { "stack", "row" }

ChildBox(placement, i) ==
    IF placement = "stack" THEN Box(24, 12 * i, 152, 24)
    ELSE Box(100 + 10 * i, 60, 40, 0)

\* node ids: "1:1k", or the id "I5:1k;21:100" of a node inside an instance
IdSchemes == { "plain", "instance" }

NodeId(scheme, k) ==
    IF scheme = "plain" THEN <<"1",":","1", DigitChars[k + 1]>>
    ELSE <<"I","5",":","1", DigitChars[k + 1], ";","2","1",":","1","0","0">>

ChildLists == UNION { [1..n -> Looks] : n \in 1..MaxChildren }

\* nothing, or one element nested in the first child
Nested ==
    { <<>> } \cup { <<l>> : l \in { k \in Looks : k.type \in {"RECTANGLE", "TEXT"} } }

MakeTree(rb, scheme, placement, kids, nested) ==
    LET inner == [i \in 1..Len(nested) |->
                    [nested[i] EXCEPT !.id = NodeId(scheme, 9),
                                      !.absoluteBoundingBox = Box(124, 62, 10, 10)]]
        outer == [i \in 1..Len(kids) |->
                    [kids[i] EXCEPT !.id = NodeId(scheme, i),
                                    !.absoluteBoundingBox = ChildBox(placement, i),
                                    !.children = IF i = 1 THEN inner ELSE <<>>]]
    IN  [DefaultNode EXCEPT
            !.id = <<"1",":","2","3">>,
            !.name = <<"P","r","i","m","a","r","y"," ","B","u","t","t","o","n">>,
            !.type = "COMPONENT", !.absoluteBoundingBox = rb,
            !.fills = <<Blue>>, !.cornerRadius = 8, !.children = outer]

Trees ==
    { MakeTree(rb, scheme, placement, kids, nested) :
        rb \in RootBoxes, scheme \in IdSchemes, placement \in Placements,
        kids \in ChildLists, nested \in Nested }

-----------------------------------------------------------------------------
(* State machine of the stylesheet assembly *)

NoRequest == [root |-> DefaultNode, node |-> DefaultNode, parent |-> <<>>,
              root_bounds |-> NoBox]

NoResult == [err |-> FALSE, styles |-> <<>>]

\* a ResponsiveLayoutConverter() nobody calls
IdleConverter ==
    /\ use_percentage_widths = TRUE
    /\ use_rem = TRUE
    /\ root_width = 0
    /\ root_height = 0
    /\ layout_request = NoRequest
    /\ called = <<>>
    /\ result = NoResult

\* SCSSComponentGenerator(cname) for a request generate_scss(node)
Init ==
    /\ scss_request \in [cname : ComponentNames, node : Trees]
    /\ component_name = scss_request.cname
    /\ root_bounds = NoBox
    /\ root_node = <<>>
    /\ generated_classes = <<>>
    /\ root_styles = <<>>
    /\ visits = <<>>
    /\ IdleConverter
    /\ IdleExtractors
    /\ IdleServices

\* generate_scss(node), called once on the generator built for it
GenerateScss ==
    LET node == scss_request.node
        rb   == node.absoluteBoundingBox
        acc  == _collect_node_styles([classes |-> generated_classes, visits |-> <<>>],
                                     component_name, node, node)
    IN  /\ root_node = <<>>
        /\ root_bounds' = rb
        /\ root_node' = <<node>>
        /\ root_styles' = _generate_node_styles(node, <<>>, TRUE, 0, 1, rb)
        /\ generated_classes' = acc.classes
        /\ visits' = acc.visits
        /\ UNCHANGED <<component_name, scss_request, respVars, normVars, tokenVars,
                     variantVars, serviceVars>>

Next == GenerateScss

Spec == Init /\ [][Next]_vars

-----------------------------------------------------------------------------
(* Stylesheet assembly over trees with several paints and with             *)
(* document/canvas nodes (SpecPaint)                                       *)

MaxFills == 2

Hidden == [Blue EXCEPT !.visible = FALSE]

Gradient ==
    [type |-> "GRADIENT_LINEAR", visible |-> TRUE, hasColor |-> FALSE,
     color |-> [r |-> 0, g |-> 0, b |-> 0, a |-> 100], opacity |-> 100,
     gradientStops |-> << [color |-> White.color, position |-> 0],
                          [color |-> Blue.color, position |-> 100] >>]

Image ==
    [type |-> "IMAGE", visible |-> TRUE, hasColor |-> FALSE,
     color |-> [r |-> 0, g |-> 0, b |-> 0, a |-> 100], opacity |-> 100]

Paints == { Blue, White, Hidden, Gradient, Image }

FillLists == UNION { [1..n -> Paints] : n \in 0..MaxFills }

StrokeLists ==
    { <<>>, <<Blue>>, <<Hidden>>, <<Hidden, Blue>>, <<Gradient, White>>, <<Blue, Hidden>> }

\* where document/canvas nodes occur
Shapes == { "plain", "canvas child", "canvas root", "document root" }

Painted(type, fills, strokes) ==
    [DefaultNode EXCEPT !.id = <<"1",":","3","0">>, !.name = <<"H","e","r","o">>, !.type = type,
                        !.absoluteBoundingBox = Box(24, 12, 152, 24),
                        !.fills = fills, !.strokes = strokes, !.strokeWeight = 2]

Plain(id, name, type, children) ==
    [DefaultNode EXCEPT !.id = id, !.name = name, !.type = type,
                        !.absoluteBoundingBox = Box(0, 0, 200, 48),
                        !.children = children]

PaintTree(shape, type, fills, strokes) ==
    LET hero == Painted(type, fills, strokes)
    IN  CASE shape = "plain" ->
               Plain(<<"1",":","2","3">>, <<"C","a","r","d">>, "COMPONENT",
                     <<hero, Plain(<<"1",":","3","1">>, <<"F","o","o","t","e","r">>, "FRAME", <<>>)>>)
          [] shape = "canvas child" ->
               Plain(<<"1",":","2","3">>, <<"C","a","r","d">>, "COMPONENT",
                     <<Plain(<<"0",":","1">>, <<"P","a","g","e"," ","1">>, "CANVAS", <<hero>>)>>)
          [] shape = "canvas root" ->
               Plain(<<"0",":","1">>, <<"P","a","g","e"," ","1">>, "CANVAS",
                     <<Plain(<<"1",":","2","3">>, <<"C","a","r","d">>, "FRAME", <<hero>>)>>)
          [] shape = "document root" ->
               Plain(<<"0",":","0">>, <<"D","o","c","u","m","e","n","t">>, "DOCUMENT",
                     <<Plain(<<"0",":","1">>, <<"P","a","g","e"," ","1">>, "CANVAS", <<hero>>)>>)

PaintTrees ==
    { PaintTree(shape, type, fills, strokes) :
        shape \in Shapes, type \in {"RECTANGLE", "TEXT"},
        fills \in FillLists, strokes \in StrokeLists }

\* SCSSComponentGenerator(cname) for a request generate_scss(node)
InitPaint ==
    /\ scss_request \in [cname : ComponentNames, node : PaintTrees]
    /\ component_name = scss_request.cname
    /\ root_bounds = NoBox
    /\ root_node = <<>>
    /\ generated_classes = <<>>
    /\ root_styles = <<>>
    /\ visits = <<>>
    /\ IdleConverter
    /\ IdleExtractors
    /\ IdleServices

NextPaint == GenerateScss

SpecPaint == InitPaint /\ [][NextPaint]_vars

-----------------------------------------------------------------------------
(* Inputs of the responsive converter *)

MaxSpacing == 3

\* paddings and item spacings, in pixels
SpacingValues == { 8 * i : i \in 0..MaxSpacing } \cup { 10 }

Constraints == { "ABSENT", "MIN", "CENTER", "MAX", "STRETCH", "SCALE" }

\* generation roots: a design-size box, an offset one, degenerate ones, none
LayoutRootBoxes ==
    { Box(0, 0, 200, 100), Box(10, 20, 200, 100), Box(0, 0, 0, 100), Box(0, 0, 200, 0),
      NoBox }

LayoutRoot(b, mode) ==
    [DefaultNode EXCEPT !.id = <<"1",":","2","3">>, !.type = "COMPONENT",
                        !.absoluteBoundingBox = b, !.layoutMode = mode]

Element == [DefaultNode EXCEPT !.id = <<"1",":","2","4">>, !.type = "RECTANGLE",
                               !.absoluteBoundingBox = Box(30, 30, 50, 30)]

\* elements placed by constraints under a root without auto-layout
ConstraintRequests ==
    { [pct |-> TRUE, rem |-> TRUE, root |-> LayoutRoot(b, "NONE"),
       node |-> [Element EXCEPT !.constraints = [horizontal |-> h, vertical |-> v]],
       parent |-> IF par THEN <<LayoutRoot(b, "NONE")>> ELSE <<>>,
       root_bounds |-> IF rb THEN b ELSE NoBox] :
        b \in LayoutRootBoxes, h \in Constraints, v \in Constraints,
        par \in BOOLEAN, rb \in BOOLEAN }

\* elements with spacing and padding of their own
SpacingRequests ==
    { [pct |-> TRUE, rem |-> rem, root |-> LayoutRoot(Box(0, 0, 200, 100), "NONE"),
       node |-> [Element EXCEPT !.layoutMode = mode, !.itemSpacing = gap,
                                !.paddingTop = pad[1], !.paddingRight = pad[2],
                                !.paddingBottom = pad[1], !.paddingLeft = pad[2]],
       parent |-> <<LayoutRoot(Box(0, 0, 200, 100), "NONE")>>,
       root_bounds |-> Box(0, 0, 200, 100)] :
        rem \in BOOLEAN, mode \in { "NONE", "HORIZONTAL", "VERTICAL" },
        gap \in SpacingValues, pad \in SpacingValues \X SpacingValues }

\* children of an auto-layout root
FlexChildRequests ==
    { [pct |-> pct, rem |-> TRUE, root |-> LayoutRoot(b, mode),
       node |-> [Element EXCEPT !.primaryAxisSizingMode = ps,
                                !.counterAxisSizingMode = cs, !.layoutGrow = grow],
       parent |-> <<LayoutRoot(b, mode)>>, root_bounds |-> b] :
        pct \in BOOLEAN, b \in { Box(0, 0, 200, 100), Box(0, 0, 0, 100) },
        mode \in { "HORIZONTAL", "VERTICAL" },
        ps \in { "AUTO", "FIXED", "FILL" }, cs \in { "AUTO", "FIXED", "FILL" },
        grow \in { 0, 1 } }

LayoutRequests == ConstraintRequests \cup SpacingRequests \cup FlexChildRequests

-----------------------------------------------------------------------------
(* State machine of the responsive converter *)

\* an SCSSComponentGenerator nobody calls
IdleGenerator ==
    /\ scss_request = [cname |-> <<>>, node |-> DefaultNode]
    /\ component_name = <<>>
    /\ root_bounds = NoBox
    /\ root_node = <<>>
    /\ generated_classes = <<>>
    /\ root_styles = <<>>
    /\ visits = <<>>

\* ResponsiveLayoutConverter(use_percentage_widths, use_rem)
InitResponsive ==
    /\ layout_request \in LayoutRequests
    /\ use_percentage_widths = layout_request.pct
    /\ use_rem = layout_request.rem
    /\ root_width = 0
    /\ root_height = 0
    /\ called = <<>>
    /\ result = NoResult
    /\ IdleGenerator
    /\ IdleExtractors
    /\ IdleServices

Converter ==
    [use_percentage_widths |-> use_percentage_widths, use_rem |-> use_rem,
     root_width |-> root_width, root_height |-> root_height]

\* convert_layout(root, is_root=True)
ConvertRoot ==
    /\ "root" \notin Range(called)
    /\ result' = Responsive_convert_layout(Converter, layout_request.root, <<>>, NoBox, TRUE)
    /\ root_width' = RootWidthOf(layout_request.root)
    /\ root_height' = RootHeightOf(layout_request.root)
    /\ called' = Append(called, "root")
    /\ UNCHANGED <<use_percentage_widths, use_rem, layout_request, scssVars,
                 normVars, tokenVars, variantVars, serviceVars>>

\* convert_layout(node, parent, root_bounds)
ConvertChild ==
    /\ "child" \notin Range(called)
    /\ result' = Responsive_convert_layout(Converter, layout_request.node,
                                           layout_request.parent,
                                           layout_request.root_bounds, FALSE)
    /\ called' = Append(called, "child")
    /\ UNCHANGED <<use_percentage_widths, use_rem, root_width, root_height,
                   layout_request, scssVars, normVars, tokenVars, variantVars, serviceVars>>

NextResponsive == ConvertRoot \/ ConvertChild

SpecResponsive == InitResponsive /\ [][NextResponsive]_vars

-----------------------------------------------------------------------------
(* Normalizer: FigmaNormalizer (figma/normalizer.py) *)

COMPONENT_TYPES == {"COMPONENT", "COMPONENT_SET", "FRAME", "INSTANCE"}

\* str.isalpha() / str.isupper() on one character
IsAlpha(c) == c \in Range(UpperChars) \cup Range(LowerChars)

IsUpper(c) == c \in Range(UpperChars)

_is_component_candidate(node) ==
    IF node.type \in COMPONENT_TYPES THEN TRUE
    ELSE IF node.type = "FRAME"
         THEN node.name # <<>> /\ IsUpper(node.name[1])
         ELSE FALSE

RECURSIVE CollapseDashes(_)
\* while "--" in name: name = name.replace("--", "-")
CollapseDashes(s) ==
    IF Len(s) < 2 THEN s
    ELSE IF s[1] = "-" /\ s[2] = "-" THEN CollapseDashes(Tail(s))
    ELSE <<s[1]>> \o CollapseDashes(Tail(s))

_sanitize_name(name) ==
    LET n1 == ReplaceChar(ReplaceChar(Lower(name), "/", "-"), "\\", "-")
        n2 == ReplaceChar(ReplaceChar(n1, " ", "-"), "_", "-")
        n3 == StripChar(CollapseDashes(KeepAlnumDash(n2)), "-")
        n4 == IF n3 # <<>> /\ ~IsAlpha(n3[1]) THEN <<"c","o","m","p","o","n","e","n","t","-">> \o n3 ELSE n3
    IN  IF n4 # <<>> THEN n4 ELSE <<"c","o","m","p","o","n","e","n","t">>

\* the model's nodes carry no text style and no effects; a cornerRadius of 0
\* stands for the absent key
_extract_node_tokens(node) ==
    LET t1 == IF node.fills # <<>> /\ node.fills[1].type = "SOLID"
                   /\ node.fills[1].hasColor
              THEN <<[k |-> "backgroundColor", v |-> _rgba_to_hex(node.fills[1].color)]>>
              ELSE <<>>
        t2 == IF node.type = "TEXT"
              THEN Put(t1, "typography",
                       [fontFamily |-> "None", fontSize |-> "None", fontWeight |-> "None",
                        lineHeight |-> "None", letterSpacing |-> "None"])
              ELSE t1
    IN  IF node.cornerRadius # 0 THEN Put(t2, "borderRadius", Px(node.cornerRadius))
        ELSE t2

_has_image_fill(node) == \E i \in 1..Len(node.fills) : node.fills[i].type = "IMAGE"

RECURSIVE _find_asset_nodes(_)
RECURSIVE AssetsOfChildren(_, _)
_find_asset_nodes(node) ==
    (IF node.type \in {"VECTOR", "RECTANGLE", "ELLIPSE"} /\ _has_image_fill(node)
        THEN <<node.id>> ELSE <<>>)
      \o AssetsOfChildren(node.children, 1)

AssetsOfChildren(children, i) ==
    IF i > Len(children) THEN <<>>
    ELSE _find_asset_nodes(children[i]) \o AssetsOfChildren(children, i + 1)

\* the returned component; the node is also entered in all_nodes by the caller
\* below, as normalize_node does
normalize_node(node) ==
    [id |-> node.id, name |-> _sanitize_name(node.name), node |-> node,
     tokens |-> _extract_node_tokens(node), assets |-> _find_asset_nodes(node)]

RECURSIVE _traverse_node(_, _)
RECURSIVE TraverseChildren(_, _, _)
\* acc is [components, all_nodes]
_traverse_node(acc, node) ==
    LET a1 == [acc EXCEPT !.all_nodes = Put(@, node.id, node)]
        a2 == IF _is_component_candidate(node)
              THEN [a1 EXCEPT !.components = Append(@, normalize_node(node))]
              ELSE a1
    IN  TraverseChildren(a2, node.children, 1)

TraverseChildren(acc, children, i) ==
    IF i > Len(children) THEN acc
    ELSE TraverseChildren(_traverse_node(acc, children[i]), children, i + 1)

(* Inputs of the normalizer: files *)

MaxNameLen == 3

NameChars == {"a", "B", "é", "1", "-", " ", "!"}

NodeNames == UNION { [1..n -> NameChars] : n \in 0..MaxNameLen }

\* the element below the named node: type and fills
Insets ==
    { [type |-> "RECTANGLE", fills |-> <<Image>>],
      [type |-> "FRAME", fills |-> <<Blue, Image>>],
      [type |-> "TEXT", fills |-> <<White>>],
      [type |-> "VECTOR", fills |-> <<>>] }

FileOf(type, name, inset) ==
    LET leaf == [DefaultNode EXCEPT !.id = <<"1",":","3">>, !.name = <<"P","h","o","t","o">>,
                                    !.type = inset.type, !.fills = inset.fills]
        top  == [DefaultNode EXCEPT !.id = <<"1",":","2">>, !.name = name, !.type = type,
                                    !.cornerRadius = 8, !.fills = <<Blue>>,
                                    !.children = <<leaf>>]
        page == [DefaultNode EXCEPT !.id = <<"0",":","1">>, !.name = <<"P","a","g","e"," ","1">>,
                                    !.type = "CANVAS", !.children = <<top>>]
    IN  [name |-> <<"D","e","s","i","g","n">>,
         document |-> << [DefaultNode EXCEPT !.id = <<"0",":","0">>, !.name = <<"D","o","c","u","m","e","n","t">>,
                                             !.type = "DOCUMENT",
                                             !.children = <<page>>] >>]

Files ==
    { FileOf(type, name, inset) :
        type \in {"FRAME", "COMPONENT", "GROUP", "ELLIPSE"}, name \in NodeNames,
        inset \in Insets }
      \cup { [name |-> <<"E","m","p","t","y">>, document |-> <<>>] }

(* State machine of the normalizer *)

InitNormalize ==
    /\ file_data \in { <<f>> : f \in Files }
    /\ components = <<>> /\ all_nodes = <<>> /\ normalize_result = <<>>
    /\ colors = {} /\ typography = <<>> /\ spacing_values = {} /\ radii = {}
    /\ shadows = <<>> /\ font_families = {}
    /\ token_nodes = <<>> /\ tokens = <<>>
    /\ variant_node = <<>> /\ variant_result = <<>>
    /\ IdleGenerator
    /\ IdleConverter
    /\ IdleServices

\* normalize_file(file_data), called once
NormalizeFile ==
    LET document == file_data[1].document
        acc == IF document = <<>> THEN [components |-> <<>>, all_nodes |-> <<>>]
               ELSE _traverse_node([components |-> <<>>, all_nodes |-> <<>>], document[1])
    IN  /\ normalize_result = <<>>
        /\ components' = acc.components
        /\ all_nodes' = acc.all_nodes
        /\ normalize_result' =
              << [keys |-> IF document = <<>> THEN {"components", "nodes"}
                           ELSE {"file_name", "last_modified", "version",
                                 "components", "nodes"},
                  file_name |-> IF document = <<>> THEN <<>> ELSE file_data[1].name,
                  components |-> acc.components, nodes |-> acc.all_nodes] >>
        /\ UNCHANGED <<file_data, scssVars, respVars, tokenVars, variantVars, serviceVars>>

NextNormalize == NormalizeFile

SpecNormalize == InitNormalize /\ [][NextNormalize]_vars

-----------------------------------------------------------------------------
(* Token extractor: TokenExtractor (extractors/tokens.py, utils/colors.py) *)

\* utils.colors.rgba_to_hex
rgba_to_hex(color) ==
    <<"#">> \o Hex2(Channel(color.r)) \o Hex2(Channel(color.g)) \o Hex2(Channel(color.b))
        \o (IF color.a < 100 THEN Hex2(Channel(color.a)) ELSE <<>>)

known_colors ==
    << [k |-> <<"#","F","F","F","F","F","F">>, v |-> <<"w","h","i","t","e">>], [k |-> <<"#","0","0","0","0","0","0">>, v |-> <<"b","l","a","c","k">>],
       [k |-> <<"#","F","F","0","0","0","0">>, v |-> <<"r","e","d">>], [k |-> <<"#","0","0","F","F","0","0">>, v |-> <<"g","r","e","e","n">>],
       [k |-> <<"#","0","0","0","0","F","F">>, v |-> <<"b","l","u","e">>], [k |-> <<"#","F","F","F","F","0","0">>, v |-> <<"y","e","l","l","o","w">>],
       [k |-> <<"#","F","F","0","0","F","F">>, v |-> <<"m","a","g","e","n","t","a">>], [k |-> <<"#","0","0","F","F","F","F">>, v |-> <<"c","y","a","n">>],
       [k |-> <<"#","8","0","8","0","8","0">>, v |-> <<"g","r","a","y">>] >>

\* known_colors.get(hex_color.upper(), ""); the hex strings are upper case already
get_semantic_color_name(hex_color) ==
    IF Has(known_colors, hex_color) THEN Get(known_colors, hex_color) ELSE <<>>

\* the order of str on hex colour strings: "#" before digits before letters
CharRank(c) == IF c = "#" THEN 0 ELSE IndexOf(HexChars, c)

RECURSIVE StrLess(_, _)
StrLess(s, t) ==
    IF t = <<>> THEN FALSE
    ELSE IF s = <<>> THEN TRUE
    ELSE IF s[1] = t[1] THEN StrLess(Tail(s), Tail(t))
    ELSE CharRank(s[1]) < CharRank(t[1])

RECURSIVE SortedStrings(_)
\* sorted(a set of str)
SortedStrings(S) ==
    IF S = {} THEN <<>>
    ELSE LET m == CHOOSE x \in S : \A y \in S \ {x} : StrLess(x, y)
         IN  <<m>> \o SortedStrings(S \ {m})

RECURSIVE SortedNumbers(_)
\* sorted(a set of numbers)
SortedNumbers(S) ==
    IF S = {} THEN <<>>
    ELSE LET m == CHOOSE x \in S : \A y \in S : x <= y
         IN  <<m>> \o SortedNumbers(S \ {m})

\* the paints of a list that give a colour: visible, solid, with a color
PaintColors(paints) ==
    { rgba_to_hex(paints[i].color) :
        i \in { j \in 1..Len(paints) :
                  paints[j].visible /\ paints[j].type = "SOLID" /\ paints[j].hasColor } }

\* f"{fontFamily}-{fontSize}-{fontWeight}"
_get_typography_key(style) ==
    style.fontFamily \o <<"-">> \o IntStr(style.fontSize) \o <<"-">> \o IntStr(style.fontWeight)

\* line heights in pixels, or in a unit the code answers with "normal"
_get_line_height(style) ==
    IF style.lineHeightUnit = "PIXELS" THEN IntStr(style.lineHeightPx) \o <<"p","x">>
    ELSE <<"n","o","r","m","a","l">>

\* the typography entry of a text style
TypographyEntry(style) ==
    [fontFamily |-> style.fontFamily,
     fontSize |-> IntStr(style.fontSize) \o <<"p","x">>,
     fontWeight |-> style.fontWeight,
     lineHeight |-> _get_line_height(style),
     letterSpacing |-> IntStr(style.letterSpacing) \o <<"p","x">>]

RECURSIVE _extract_from_node(_, _)
RECURSIVE ExtractFromChildren(_, _, _)
\* acc is [colors, typography, spacing_values, radii, shadows, font_families];
\* the model's nodes carry no effects, so shadows stay as they are; a padding,
\* spacing or radius of 0 stands for the absent key
_extract_from_node(acc, node) ==
    LET texted == node.type = "TEXT" /\ node.style.fontFamily # <<>>
        a1 == [acc EXCEPT
                 !.font_families = IF texted THEN @ \cup {node.style.fontFamily} ELSE @,
                 !.typography =
                     IF texted /\ ~ Has(@, _get_typography_key(node.style))
                     THEN Put(@, _get_typography_key(node.style), TypographyEntry(node.style))
                     ELSE @,
                 !.colors = @ \cup PaintColors(node.fills) \cup PaintColors(node.strokes),
                 !.spacing_values =
                     @ \cup { v \in { node.paddingLeft, node.paddingRight, node.paddingTop,
                                      node.paddingBottom, node.itemSpacing } : v > 0 },
                 !.radii =
                     @ \cup { v \in { node.cornerRadius }
                                      \cup Range(node.rectangleCornerRadii) : v > 0 }]
    IN  ExtractFromChildren(a1, node.children, 1)

ExtractFromChildren(acc, children, i) ==
    IF i > Len(children) THEN acc
    ELSE ExtractFromChildren(_extract_from_node(acc, children[i]), children, i + 1)

RECURSIVE ExtractFromNodes(_, _, _)
\* for node in nodes.values(): self._extract_from_node(node)
ExtractFromNodes(acc, nodes, i) ==
    IF i > Len(nodes) THEN acc
    ELSE ExtractFromNodes(_extract_from_node(acc, nodes[i].v), nodes, i + 1)

\* get_semantic_color_name(color) or f"color-{i}", without the number
ColorTokenName_unnumbered(color, i) ==
    IF get_semantic_color_name(color) # <<>> THEN get_semantic_color_name(color)
    ELSE <<"c","o","l","o","r","-">>

\* get_semantic_color_name(color) or f"color-{i}"
ColorTokenName(color, i) ==
    IF get_semantic_color_name(color) # <<>> THEN get_semantic_color_name(color)
    ELSE <<"c","o","l","o","r","-">> \o NatStr(i)

RECURSIVE BuildColors(_, _, _)
BuildColors(toks, colors_list, i) ==
    IF i > Len(colors_list) THEN toks
    ELSE BuildColors(Put(toks, ColorTokenName(colors_list[i], i), colors_list[i]),
                     colors_list, i + 1)

_build_color_tokens(cs) == BuildColors(<<>>, SortedStrings(cs), 1)

RECURSIVE BuildScale(_, _, _, _, _)
\* the loop of _build_spacing_tokens, _build_radii_tokens and
\* _build_shadow_tokens over the CSS values; i is 1-based
BuildScale(toks, css_values, scale_names, prefix, i) ==
    IF i > Len(css_values) THEN toks
    ELSE BuildScale(Put(toks,
                        IF i <= Len(scale_names) THEN scale_names[i]
                        ELSE prefix \o NatStr(i),
                        css_values[i]),
                    css_values, scale_names, prefix, i + 1)

\* f"{value}px" for each value of sorted(values)
SortedPx(values) ==
    LET sorted == SortedNumbers(values) IN [i \in 1..Len(sorted) |-> Px(sorted[i])]

_build_spacing_tokens(vs) ==
    BuildScale(<<>>, SortedPx(vs),
               <<<<"x","s">>, <<"s","m">>, <<"m","d">>, <<"l","g">>, <<"x","l">>, <<"2","x","l">>, <<"3","x","l">>, <<"4","x","l">>, <<"5","x","l">>>>,
               <<"s","p","a","c","i","n","g","-">>, 1)

_build_radii_tokens(rs) ==
    BuildScale(<<>>, SortedPx(rs),
               <<<<"s","m">>, <<"m","d">>, <<"l","g">>, <<"x","l">>, <<"2","x","l">>, <<"3","x","l">>, <<"f","u","l","l">>>>, <<"r","a","d","i","u","s","-">>, 1)

_build_shadow_tokens(ss) ==
    BuildScale(<<>>, ss, <<<<"s","m">>, <<"m","d">>, <<"l","g">>, <<"x","l">>, <<"2","x","l">>>>, <<"s","h","a","d","o","w","-">>, 1)

\* TokenExtractor(): the fields of an extractor that was never used
NewTokenExtractor ==
    [colors |-> {}, typography |-> <<>>, spacing_values |-> {}, radii |-> {},
     shadows |-> <<>>, font_families |-> {}]

\* the fields of the extractor
Extractor ==
    [colors |-> colors, typography |-> typography, spacing_values |-> spacing_values,
     radii |-> radii, shadows |-> shadows, font_families |-> font_families]

\* extract_tokens without its "Reset state" lines
ResetState_kept(self) == self

\* the "Reset state" lines of extract_tokens
ResetState(self) ==
    [colors |-> {}, typography |-> <<>>, spacing_values |-> {}, radii |-> {},
     shadows |-> <<>>, font_families |-> {}]

\* the fields of the extractor after extract_tokens(nodes)
extract_tokens(self, nodes) == ExtractFromNodes(ResetState(self), nodes, 1)

\* list(a_set): the elements in one of the orders iteration can give; the
\* order of a set of str depends on the hash seed of the process
ListsOf(S) ==
    { order \in [1..Cardinality(S) -> S] : Range(order) = S }

\* the dictionary extract_tokens returns, font_list being list(font_families)
BuildTokens(acc, font_list) ==
    [colors |-> _build_color_tokens(acc.colors),
     typography |-> acc.typography,
     spacing |-> _build_spacing_tokens(acc.spacing_values),
     radii |-> _build_radii_tokens(acc.radii),
     shadows |-> _build_shadow_tokens(acc.shadows),
     fontFamilies |-> font_list]

(* Inputs of the token extractor: node maps *)

MaxScale == 10

Red == SolidFill(100, 0, 0, 100, 100)

Ghost == SolidFill(100, 0, 0, 50, 100)

TokenFills ==
    { <<>>, <<Red>>, <<Red, Red>>, <<Blue, White>>, <<Hidden, Gradient>>, <<Ghost, Blue>> }

TokenStrokes == { <<>>, <<Red>>, <<Blue>> }

\* two nodes with paints; the second is also the first one's child when nested
PaintedNodes(fills_a, strokes_a, fills_b, nested) ==
    LET b == [DefaultNode EXCEPT !.id = <<"1",":","3">>, !.name = <<"L","a","b","e","l">>, !.type = "TEXT",
                                 !.fills = fills_b]
        a == [DefaultNode EXCEPT !.id = <<"1",":","2">>, !.name = <<"C","a","r","d">>, !.type = "FRAME",
                                 !.fills = fills_a, !.strokes = strokes_a,
                                 !.children = IF nested THEN <<b>> ELSE <<>>]
    IN  << [k |-> a.id, v |-> a], [k |-> b.id, v |-> b] >>

\* the j-th of count values, 4 apart, rising or falling with j; 0 beyond count
ScaleValue(count, rising, j) ==
    IF j > count THEN 0 ELSE IF rising THEN 4 * j ELSE 4 * (count + 1 - j)

\* node number n carries five spacings and five radii of the scale
ScaledNode(n, nspacing, nradii, rising) ==
    [DefaultNode EXCEPT
        !.id = <<"2", ":", DigitChars[n + 1]>>, !.name = <<"B","o","x">>, !.type = "FRAME",
        !.paddingLeft = ScaleValue(nspacing, rising, 5 * n - 4),
        !.paddingRight = ScaleValue(nspacing, rising, 5 * n - 3),
        !.paddingTop = ScaleValue(nspacing, rising, 5 * n - 2),
        !.paddingBottom = ScaleValue(nspacing, rising, 5 * n - 1),
        !.itemSpacing = ScaleValue(nspacing, rising, 5 * n),
        !.cornerRadius = ScaleValue(nradii, rising, 5 * n - 4),
        !.rectangleCornerRadii =
            [c \in 1..4 |-> ScaleValue(nradii, rising, 5 * n - 4 + c)]]

ScaledNodes(nspacing, nradii, rising) ==
    [n \in 1..3 |-> [k |-> ScaledNode(n, nspacing, nradii, rising).id,
                     v |-> ScaledNode(n, nspacing, nradii, rising)]]

NodeMaps ==
    { PaintedNodes(fa, sa, fb, nested) :
        fa \in TokenFills, sa \in TokenStrokes, fb \in TokenFills, nested \in BOOLEAN }
      \cup { ScaledNodes(ns, nr, rising) :
                ns \in 0..MaxScale, nr \in 0..MaxScale, rising \in BOOLEAN }

(* State machine of the token extractor *)

InitTokens ==
    /\ token_nodes \in { <<m>> : m \in NodeMaps }
    /\ colors = {} /\ typography = <<>> /\ spacing_values = {} /\ radii = {}
    /\ shadows = <<>> /\ font_families = {}
    /\ tokens = <<>>
    /\ components = <<>> /\ all_nodes = <<>>
    /\ file_data = <<>> /\ normalize_result = <<>>
    /\ variant_node = <<>> /\ variant_result = <<>>
    /\ IdleGenerator
    /\ IdleConverter
    /\ IdleServices

\* extract_tokens(nodes), called once
ExtractTokens ==
    LET acc == extract_tokens(Extractor, token_nodes[1])
    IN  /\ tokens = <<>>
        /\ colors' = acc.colors
        /\ typography' = acc.typography
        /\ spacing_values' = acc.spacing_values
        /\ radii' = acc.radii
        /\ shadows' = acc.shadows
        /\ font_families' = acc.font_families
        /\ \E order \in ListsOf(acc.font_families) :
               tokens' = << BuildTokens(acc, order) >>
        /\ UNCHANGED <<token_nodes, scssVars, respVars, normVars, variantVars, serviceVars>>

NextTokens == ExtractTokens

SpecTokens == InitTokens /\ [][NextTokens]_vars

(* Repeated and independent runs of the token extractor *)

MaxCalls == 2

\* a text node in the given font family
TextNode(i, family) ==
    [DefaultNode EXCEPT !.id = <<"3", ":", DigitChars[i + 2]>>, !.name = <<"L","a","b","e","l">>,
                        !.type = "TEXT",
                        !.style = [NoStyle EXCEPT !.fontFamily = family,
                                                  !.fontSize = 12 + 2 * i,
                                                  !.lineHeightUnit =
                                                      IF i = 1 THEN "PIXELS" ELSE "INTRINSIC_%"]]

FamilyLists ==
    { <<>>, << <<"I","n","t","e","r">> >>, << <<"R","o","b","o","t","o">> >>, << <<"I","n","t","e","r">>, <<"R","o","b","o","t","o">> >>,
      << <<"R","o","b","o","t","o">>, <<"I","n","t","e","r">> >>, << <<"I","n","t","e","r">>, <<"I","n","t","e","r">> >> }

\* a node map of one frame holding a text node per family
RunNodes(fills, padding, families) ==
    << [k |-> <<"3",":","1">>,
        v |-> [DefaultNode EXCEPT !.id = <<"3",":","1">>, !.name = <<"P","a","n","e","l">>, !.type = "FRAME",
                                  !.fills = fills, !.paddingLeft = padding,
                                  !.cornerRadius = padding,
                                  !.children = [i \in 1..Len(families) |->
                                                   TextNode(i, families[i])]]] >>

RunNodeMaps ==
    { RunNodes(fills, padding, families) :
        fills \in { <<>>, <<Red>>, <<Blue>> }, padding \in {0, 8},
        families \in FamilyLists }

InitTokenRuns ==
    /\ token_nodes = <<>>
    /\ tokens = <<>>
    /\ colors = {} /\ typography = <<>> /\ spacing_values = {} /\ radii = {}
    /\ shadows = <<>> /\ font_families = {}
    /\ token_calls = 0
    /\ tokens_rerun = <<>>
    /\ components = <<>> /\ all_nodes = <<>>
    /\ file_data = <<>> /\ normalize_result = <<>>
    /\ variant_node = <<>> /\ variant_result = <<>>
    /\ IdleGenerator
    /\ IdleConverter
    /\ IdleStates
    /\ IdleComponentGenerator
    /\ IdleScssRuns
    /\ IdleRequest
    /\ IdleCache
    /\ IdleWatch
    /\ IdleRegenerate

\* one more extract_tokens(nodes) call on the same TokenExtractor
ExtractTokensCall ==
    \E nodes \in RunNodeMaps :
        LET acc == extract_tokens(Extractor, nodes)
        IN  /\ token_calls < MaxCalls
            /\ token_calls' = token_calls + 1
            /\ token_nodes' = <<nodes>>
            /\ colors' = acc.colors
            /\ typography' = acc.typography
            /\ spacing_values' = acc.spacing_values
            /\ radii' = acc.radii
            /\ shadows' = acc.shadows
            /\ font_families' = acc.font_families
            /\ \E order \in ListsOf(acc.font_families) :
                   tokens' = << BuildTokens(acc, order) >>
            /\ tokens_rerun' = <<>>
            /\ UNCHANGED <<scssVars, respVars, normVars, variantVars, stateVars,
                           genVars, scssRunVars, requestVars, cacheVars, watchVars,
                           regenVars>>

\* an independent run: extract_tokens on a new TokenExtractor of another
\* process, over the nodes of the last call
ExtractTokensRerun ==
    LET acc == extract_tokens(NewTokenExtractor, token_nodes[1])
    IN  /\ tokens # <<>>
        /\ tokens_rerun = <<>>
        /\ \E order \in ListsOf(acc.font_families) :
               tokens_rerun' = << BuildTokens(acc, order) >>
        /\ UNCHANGED <<tokenVars, token_calls, scssVars, respVars, normVars,
                       variantVars, stateVars, genVars, scssRunVars, requestVars,
                       cacheVars, watchVars, regenVars>>

NextTokenRuns == ExtractTokensCall \/ ExtractTokensRerun

SpecTokenRuns == InitTokenRuns /\ [][NextTokenRuns]_vars

-----------------------------------------------------------------------------
(* Variant extractor: VariantExtractor (extractors/variants.py) *)

RECURSIVE SplitOn(_, _)
\* s.split(c) for a one-character separator
SplitOn(s, c) ==
    IF c \notin Range(s) THEN <<s>>
    ELSE LET i == CHOOSE k \in 1..Len(s) : s[k] = c /\ \A j \in 1..(k - 1) : s[j] # c
         IN  <<SubSeq(s, 1, i - 1)>> \o SplitOn(SubSeq(s, i + 1, Len(s)), c)

RECURSIVE ParsePairs(_, _, _)
\* the loop of _parse_variant_name over the comma-separated pairs; strip()
\* removes the blanks at both ends
ParsePairs(props, pairs, i) ==
    IF i > Len(pairs) THEN props
    ELSE LET pair == StripChar(pairs[i], " ")
             kv   == SplitOn(pair, "=")
             rest == SubSeq(pair, Len(kv[1]) + 2, Len(pair))
         IN  ParsePairs(IF "=" \in Range(pair)
                        THEN Put(props, StripChar(kv[1], " "), StripChar(rest, " "))
                        ELSE props,
                        pairs, i + 1)

_parse_variant_name(name) ==
    IF name = <<>> THEN <<>> ELSE ParsePairs(<<>>, SplitOn(name, ","), 1)

\* the VARIANT entries of componentPropertyDefinitions, in order
_extract_property_definitions(prop_definitions) ==
    LET variant == SelectSeq(prop_definitions, LAMBDA e : e.v.type = "VARIANT")
    IN  [i \in 1..Len(variant) |->
            [name |-> variant[i].k, options |-> variant[i].v.variantOptions,
             default_value |-> variant[i].v.defaultValue]]

\* the properties argument is not used by the code
_extract_variants(node, properties) ==
    LET kids == SelectSeq(node.children, LAMBDA c : c.type = "COMPONENT")
    IN  [i \in 1..Len(kids) |->
            [name |-> kids[i].name, node_id |-> kids[i].id,
             properties |-> _parse_variant_name(kids[i].name), node |-> kids[i]]]

\* the value standing for None
NoVariantGroup == [none |-> TRUE]

extract_variants(node) ==
    IF node.type # "COMPONENT_SET" THEN <<NoVariantGroup>>
    ELSE LET properties == _extract_property_definitions(node.componentPropertyDefinitions)
             variants   == _extract_variants(node, properties)
         IN  << [properties |-> properties, variants |-> variants,
                 default_variant |-> IF variants # <<>> THEN <<variants[1]>> ELSE <<>>] >>

(* Inputs of the variant extractor: component sets *)

MaxVariants == 2

VariantNames ==
    { <<>>, <<"S","i","z","e","=","L">>, <<"S","i","z","e","=","L",","," ","S","t","a","t","e","=","H","o","v","e","r">>, <<"S","i","z","e","=","S",","," ","F","o","o","=","B","a","r">>, <<"L","a","r","g","e">>,
      <<" ","S","t","a","t","e"," ","="," ","H","o","v","e","r"," ",",","S","i","z","e","=","S">>, <<"S","i","z","e","=","L",",",",","x","=">>, <<"L","a","b","e","l","=","H","i">> }

SizeProperty ==
    [k |-> <<"S","i","z","e">>, v |-> [type |-> "VARIANT", variantOptions |-> <<<<"S">>, <<"L">>>>,
                           defaultValue |-> <<"S">>]]

StateProperty ==
    [k |-> <<"S","t","a","t","e">>, v |-> [type |-> "VARIANT", variantOptions |-> <<<<"R","e","s","t">>, <<"H","o","v","e","r">>>>,
                            defaultValue |-> <<"R","e","s","t">>]]

LabelProperty ==
    [k |-> <<"L","a","b","e","l">>, v |-> [type |-> "TEXT", variantOptions |-> <<>>,
                            defaultValue |-> <<"H","i">>]]

PropertyDefinitions ==
    { <<>>, <<SizeProperty>>, <<SizeProperty, StateProperty>>, <<LabelProperty, SizeProperty>> }

VariantChildren ==
    UNION { [1..n -> [type : {"COMPONENT", "FRAME"}, name : VariantNames]] :
              n \in 0..MaxVariants }

VariantSet(type, defs, kids) ==
    [DefaultNode EXCEPT
        !.id = <<"5",":","0">>, !.name = <<"B","u","t","t","o","n">>, !.type = type,
        !.componentPropertyDefinitions = defs,
        !.children = [i \in 1..Len(kids) |->
                        [DefaultNode EXCEPT !.id = <<"5", ":", DigitChars[i + 1]>>,
                                            !.name = kids[i].name,
                                            !.type = kids[i].type]]]

VariantSets ==
    { VariantSet(type, defs, kids) :
        type \in {"COMPONENT_SET", "FRAME"}, defs \in PropertyDefinitions,
        kids \in VariantChildren }

(* State machine of the variant extractor *)

InitVariants ==
    /\ variant_node \in { <<n>> : n \in VariantSets }
    /\ variant_result = <<>>
    /\ components = <<>> /\ all_nodes = <<>>
    /\ file_data = <<>> /\ normalize_result = <<>>
    /\ colors = {} /\ typography = <<>> /\ spacing_values = {} /\ radii = {}
    /\ shadows = <<>> /\ font_families = {}
    /\ token_nodes = <<>> /\ tokens = <<>>
    /\ IdleGenerator
    /\ IdleConverter
    /\ IdleServices

\* extract_variants(node), called once
ExtractVariants ==
    /\ variant_result = <<>>
    /\ variant_result' = extract_variants(variant_node[1])
    /\ UNCHANGED <<variant_node, scssVars, respVars, normVars, tokenVars, serviceVars>>

NextVariants == ExtractVariants

SpecVariants == InitVariants /\ [][NextVariants]_vars

-----------------------------------------------------------------------------
(* Interaction states: InteractionStatesExtractor (extractors/interaction_states.py) *)

\* selectors are never taken apart and are kept as whole strings
STATE_KEYWORDS ==
    << [k |-> <<"h","o","v","e","r">>,    v |-> <<":hover">>],
       [k |-> <<"h","o","v","e","r","e","d">>,  v |-> <<":hover">>],
       [k |-> <<"f","o","c","u","s">>,    v |-> <<":focus", ":focus-visible">>],
       [k |-> <<"f","o","c","u","s","e","d">>,  v |-> <<":focus", ":focus-visible">>],
       [k |-> <<"a","c","t","i","v","e">>,   v |-> <<":active">>],
       [k |-> <<"p","r","e","s","s","e","d">>,  v |-> <<":active">>],
       [k |-> <<"d","i","s","a","b","l","e","d">>, v |-> <<":disabled", "[disabled]">>],
       [k |-> <<"s","e","l","e","c","t","e","d">>, v |-> <<".selected", "[aria-selected=\"true\"]">>],
       [k |-> <<"c","h","e","c","k","e","d">>,  v |-> <<":checked">>],
       [k |-> <<"e","r","r","o","r">>,    v |-> <<".error", "[aria-invalid=\"true\"]">>],
       [k |-> <<"l","o","a","d","i","n","g">>,  v |-> <<".loading">>],
       [k |-> <<"d","e","f","a","u","l","t">>,  v |-> <<>>],
       [k |-> <<"n","o","r","m","a","l">>,   v |-> <<>>],
       [k |-> <<"r","e","s","t">>,     v |-> <<>>] >>

STATE_PROPERTY_NAMES == << <<"s","t","a","t","e">>, <<"s","t","a","t","e","s">>, <<"i","n","t","e","r","a","c","t","i","o","n">>, <<"s","t","a","t","u","s">> >>

\* the properties whose name holds a state word or one of whose options is,
\* in lower case, a key of STATE_KEYWORDS
_find_state_properties(properties) ==
    SelectSeq(properties,
              LAMBDA prop :
                  \/ \E i \in 1..Len(STATE_PROPERTY_NAMES) :
                         Contains(Lower(prop.name), STATE_PROPERTY_NAMES[i])
                  \/ \E j \in 1..Len(prop.options) :
                         Has(STATE_KEYWORDS, Lower(prop.options[j])))

\* variant.properties.get(prop.name, ""), as written in the variant name
StateValue_cased(variant, prop) ==
    IF Has(variant.properties, prop.name) THEN Get(variant.properties, prop.name)
    ELSE <<>>

\* variant.properties.get(prop.name, "").lower()
StateValue(variant, prop) ==
    IF Has(variant.properties, prop.name) THEN Lower(Get(variant.properties, prop.name))
    ELSE <<>>

\* the body of the two loops of extract_states for one variant and property
StatesOf(variant, prop) ==
    LET state_value == StateValue(variant, prop)
    IN  IF state_value # <<>> /\ Has(STATE_KEYWORDS, state_value)
           /\ Get(STATE_KEYWORDS, state_value) # <<>>
        THEN << [name |-> state_value,
                 css_selectors |-> Get(STATE_KEYWORDS, state_value),
                 variant |-> variant, property_name |-> prop.name] >>
        ELSE <<>>

RECURSIVE StatesOfProps(_, _, _)
StatesOfProps(variant, state_props, j) ==
    IF j > Len(state_props) THEN <<>>
    ELSE StatesOf(variant, state_props[j]) \o StatesOfProps(variant, state_props, j + 1)

RECURSIVE StatesOfVariants(_, _, _)
StatesOfVariants(variants, state_props, i) ==
    IF i > Len(variants) THEN <<>>
    ELSE StatesOfProps(variants[i], state_props, 1)
            \o StatesOfVariants(variants, state_props, i + 1)

extract_states(variant_info) ==
    IF variant_info = NoVariantGroup THEN <<>>
    ELSE LET state_props == _find_state_properties(variant_info.properties)
         IN  IF state_props = <<>> THEN <<>>
             ELSE StatesOfVariants(variant_info.variants, state_props, 1)

(* Inputs of the interaction-states extractor: component sets with one
   declared property of two options *)

MaxStateVariants == 2

OptionStrings ==
    { <<"H","o","v","e","r">>, <<"H","O","V","E","R">>, <<"H","o","v","e","r"," ","S","t","a","t","e">>, <<"I","n","a","c","t","i","v","e">>, <<"f","o","c","u","s","e","d">>, <<"P","r","e","s","s","e","d">>,
      <<"D","e","f","a","u","l","t">>, <<"R","E","S","T">>, <<"L">> }

StatePropertyNames == { <<"S","t","a","t","e">>, <<"K","i","n","d">> }

\* the property name with options a and b; the default is the first option
OptionProperty(name, a, b) ==
    [k |-> name, v |-> [type |-> "VARIANT", variantOptions |-> <<a, b>>,
                        defaultValue |-> a]]

\* a component set whose first count options each have a variant child
StateSet(type, name, a, b, count) ==
    VariantSet(type, <<OptionProperty(name, a, b)>>,
               [i \in 1..count |->
                   [type |-> "COMPONENT",
                    name |-> name \o <<"=">> \o (IF i = 1 THEN a ELSE b)]])

StateSets ==
    { StateSet(type, name, a, b, count) :
        type \in {"COMPONENT_SET"}, name \in StatePropertyNames,
        a \in OptionStrings, b \in OptionStrings, count \in 0..MaxStateVariants }
    \cup { StateSet("FRAME", <<"S","t","a","t","e">>, <<"H","o","v","e","r">>, <<"D","e","f","a","u","l","t">>, 2) }

(* State machine of the interaction-states extractor *)

InitStates ==
    /\ variant_node \in { <<n>> : n \in StateSets }
    /\ variant_result = <<>>
    /\ components = <<>> /\ all_nodes = <<>>
    /\ file_data = <<>> /\ normalize_result = <<>>
    /\ colors = {} /\ typography = <<>> /\ spacing_values = {} /\ radii = {}
    /\ shadows = <<>> /\ font_families = {}
    /\ token_nodes = <<>> /\ tokens = <<>>
    /\ IdleGenerator
    /\ IdleConverter
    /\ IdleServices
    /\ IdleComponentGenerator
    /\ IdleTokenRuns
    /\ IdleScssRuns
    /\ IdleRequest
    /\ IdleCache
    /\ IdleWatch
    /\ IdleRegenerate

\* extract_states(variant_info) on the value extract_variants returned
ExtractStates ==
    /\ variant_result # <<>>
    /\ states = <<>>
    /\ states' = << extract_states(variant_result[1]) >>
    /\ UNCHANGED <<scssVars, respVars, normVars, tokenVars, variantVars, genVars,
                   runVars, scssRunVars, requestVars, cacheVars, watchVars, regenVars>>

NextStates == ExtractVariants \/ ExtractStates

SpecStates == InitStates /\ [][NextStates]_vars

-----------------------------------------------------------------------------
(* Component generator: ComponentGenerator (generators/component_generator.py)
   and AssetExtractor.extract_assets (extractors/assets.py).  A path is the
   sequence of its segments. *)

\* str.upper() on one character
UpperChar(c) ==
    IF c \in Range(LowerChars) THEN UpperChars[IndexOf(LowerChars, c)] ELSE c

\* str.capitalize()
Capitalize(word) ==
    IF word = <<>> THEN <<>>
    ELSE <<UpperChar(word[1])>> \o Lower(Tail(word))

RECURSIVE JoinCapitalized(_, _)
JoinCapitalized(words, i) ==
    IF i > Len(words) THEN <<>>
    ELSE Capitalize(words[i]) \o JoinCapitalized(words, i + 1)

\* utils.css.to_pascal_case: split() drops the empty words
to_pascal_case(text) ==
    LET spaced == ReplaceChar(ReplaceChar(text, "-", " "), "_", " ")
        words  == SelectSeq(SplitOn(spaced, " "), LAMBDA w : w # <<>>)
    IN  JoinCapitalized(words, 1)

\* Path.mkdir(parents=True, exist_ok=True): the directory and all its parents
MkdirParents(path) == { SubSeq(path, 1, n) : n \in 1..Len(path) }

\* self.output_path and self.assets_output_path
output_path == << <<"c","o","m","p","o","n","e","n","t","s">> >>

assets_output_path == << <<"a","s","s","e","t","s">>, <<"f","i","g","m","a">> >>

\* f"asset-{node_id.replace(':', '-')}.svg"
AssetName(node_id) == <<"a","s","s","e","t","-">> \o ReplaceChar(node_id, ":", "-") \o <<".","s","v","g">>

RECURSIVE DownloadAssets(_, _, _, _)
\* the downloads of _extract_assets_async: every asset the image service
\* serves is written into asset_dir and entered in asset_paths
DownloadAssets(acc, asset_node_ids, served, asset_dir) ==
    IF asset_node_ids = <<>> THEN acc
    ELSE LET node_id == Head(asset_node_ids)
             asset_name == AssetName(node_id)
             next == IF node_id \in served
                     THEN [files |-> Put(acc.files, asset_dir \o <<asset_name>>,
                                         [kind |-> "asset", of |-> node_id]),
                           asset_paths |-> Put(acc.asset_paths, node_id,
                                               << <<"a","s","s","e","t","s">>, <<"f","i","g","m","a">>, asset_dir[Len(asset_dir)],
                                                  asset_name >>)]
                     ELSE acc
         IN  DownloadAssets(next, Tail(asset_node_ids), served, asset_dir)

\* extract_assets on a disk [dirs, files]: the new disk and asset_paths
extract_assets(disk, asset_node_ids, served, output_dir, name) ==
    IF asset_node_ids = <<>>
    THEN [dirs |-> disk.dirs, files |-> disk.files, asset_paths |-> <<>>]
    ELSE LET asset_dir == output_dir \o <<name>>
             got == DownloadAssets([files |-> disk.files, asset_paths |-> <<>>],
                                   asset_node_ids, served, asset_dir)
         IN  [dirs |-> disk.dirs \cup MkdirParents(asset_dir),
              files |-> got.files, asset_paths |-> got.asset_paths]

\* lines 70-74 with the missing node answered by an empty node
LookupNode_lenient(nodes_data, node_id) ==
    IF nodes_data = <<>> \/ ~ Has(nodes_data, node_id) THEN <<DefaultNode>>
    ELSE LET node_wrapper == Get(nodes_data, node_id)
         IN  IF "document" \in DOMAIN node_wrapper
             THEN <<node_wrapper.document>> ELSE <<node_wrapper>>

\* lines 70-74: <<>> when ValueError is raised, else the node
LookupNode(nodes_data, node_id) ==
    IF nodes_data = <<>> \/ ~ Has(nodes_data, node_id) THEN <<>>
    ELSE LET node_wrapper == Get(nodes_data, node_id)
         IN  IF "document" \in DOMAIN node_wrapper
             THEN <<node_wrapper.document>> ELSE <<node_wrapper>>

\* the values of asset_paths, in order
PathValues(asset_paths) == [i \in 1..Len(asset_paths) |-> asset_paths[i].v]

\* _generate_react_component on the disk left by extract_assets; the text
\* ReactGenerator returns stands for itself
_generate_react_component(disk, node, name, dry_run) ==
    LET pascal_name   == to_pascal_case(name)
        component_dir == output_path \o <<name>>
        tsx_file      == component_dir \o <<pascal_name \o <<".","t","s","x">>>>
        css_file      == component_dir \o <<pascal_name \o <<".","m","o","d","u","l","e",".","c","s","s">>>>
        tsx_content   == [kind |-> "tsx", of |-> node.id]
        css_content   == [kind |-> "css", of |-> node.id]
        generated_content ==
            << [k |-> "tsx", v |-> [file |-> tsx_file, content |-> tsx_content]],
               [k |-> "css", v |-> [file |-> css_file, content |-> css_content]] >>
    IN  IF dry_run
        THEN [dirs |-> disk.dirs, files |-> disk.files,
              result |-> [success |-> TRUE, component_name |-> name,
                          component_path |-> component_dir, files |-> <<>>,
                          assets |-> PathValues(disk.asset_paths),
                          generated_content |-> generated_content, dry_run |-> TRUE]]
        ELSE [dirs |-> disk.dirs \cup MkdirParents(component_dir),
              files |-> Put(Put(disk.files, tsx_file, tsx_content), css_file, css_content),
              result |-> [success |-> TRUE, component_name |-> name,
                          component_path |-> component_dir,
                          files |-> <<tsx_file, css_file>>,
                          assets |-> PathValues(disk.asset_paths)]]

\* generate_component on the disk [dirs, files]: the new disk and the outcome,
\* a returned dictionary or [raised |-> the exception].  In the Angular branch
\* TypeScriptGenerator(component_name, variant_inputs=...) is called with a
\* keyword the constructor (typescript_generator.py:10) does not take.
generate_component(disk, request) ==
    LET found == LookupNode(request.nodes_data, request.node_id)
    IN  IF found = <<>>
        THEN [dirs |-> disk.dirs, files |-> disk.files,
              result |-> [raised |-> "ValueError"]]
        ELSE LET node      == found[1]
                 component == normalize_node(node)
                 assets    == extract_assets(disk, component.assets, request.served,
                                             assets_output_path, request.component_name)
             IN  IF request.framework = "react"
                 THEN _generate_react_component(assets, node, request.component_name,
                                                request.dry_run)
                 ELSE [dirs |-> assets.dirs, files |-> assets.files,
                       result |-> [raised |-> "TypeError"]]

(* Inputs of the component generator *)

MaxAssets == 2

\* an image-filled rectangle
Photo(i) ==
    [DefaultNode EXCEPT !.id = <<"1", ":", DigitChars[i + 3]>>, !.name = <<"P","h","o","t","o">>,
                        !.type = "RECTANGLE", !.fills = <<Image>>]

\* the requested node, with count image-filled children
GenNode(count) ==
    [DefaultNode EXCEPT !.id = <<"1",":","2">>, !.name = <<"C","a","r","d">>, !.type = "FRAME",
                        !.fills = <<Blue>>,
                        !.children = [i \in 1..count |-> Photo(i)]]

\* what get_file_nodes returned: with the node (wrapped in a document or not)
\* or without it
NodeData ==
    { <<>>, << [k |-> <<"9",":","9">>, v |-> [document |-> GenNode(0)]] >> }
      \cup { << [k |-> <<"1",":","2">>, v |-> [document |-> GenNode(n)]] >> : n \in 0..MaxAssets }
      \cup { << [k |-> <<"1",":","2">>, v |-> GenNode(n)] >> : n \in 0..MaxAssets }

\* the assets the image service serves
ServedAssets == { {}, { <<"1",":","3">> }, { <<"1",":","3">>, <<"1",":","4">>, <<"1",":","5">> } }

\* the disk before the call: empty, or holding a component generated earlier
OldDisks ==
    { [dirs |-> {}, files |-> <<>>],
      [dirs |-> MkdirParents(output_path \o << <<"m","y","-","c","a","r","d">> >>),
       files |-> << [k |-> output_path \o << <<"m","y","-","c","a","r","d">>, <<"M","y","C","a","r","d",".","t","s","x">> >>,
                     v |-> [kind |-> "tsx", of |-> <<"0",":","0">>]] >>] }

GenRequests ==
    [node_id : { <<"1",":","2">> }, component_name : { <<"m","y","-","c","a","r","d">> },
     regenerate : BOOLEAN, dry_run : BOOLEAN, framework : {"angular", "react"},
     nodes_data : NodeData, served : ServedAssets, disk : OldDisks]

(* State machine of the component generator *)

InitGenerate ==
    /\ gen_request \in { <<r>> : r \in GenRequests }
    /\ dirs = gen_request[1].disk.dirs
    /\ files = gen_request[1].disk.files
    /\ gen_result = <<>>
    /\ IdleGenerator
    /\ IdleConverter
    /\ IdleExtractors
    /\ IdleStates
    /\ IdleTokenRuns
    /\ IdleScssRuns
    /\ IdleRequest
    /\ IdleCache
    /\ IdleWatch
    /\ IdleRegenerate

\* generate_component(file_key, node_id, component_name, regenerate, dry_run)
GenerateComponent ==
    LET done == generate_component([dirs |-> dirs, files |-> files], gen_request[1])
    IN  /\ gen_result = <<>>
        /\ dirs' = done.dirs
        /\ files' = done.files
        /\ gen_result' = <<done.result>>
        /\ UNCHANGED <<gen_request, scssVars, respVars, normVars, tokenVars,
                       variantVars, stateVars, runVars, scssRunVars, requestVars,
                       cacheVars, watchVars, regenVars>>

NextGenerate == GenerateComponent

SpecGenerate == InitGenerate /\ [][NextGenerate]_vars

-----------------------------------------------------------------------------
(* Repeated generate_scss calls on one SCSSComponentGenerator (SpecScssRuns) *)

\* the order of str on the characters of a class name
ClassCharRank(c) ==
    IF c = "-" THEN 0
    ELSE IF c \in Range(DigitChars) THEN IndexOf(DigitChars, c)
    ELSE IF c = "_" THEN 20
    ELSE IF c \in Range(LowerChars) THEN 20 + IndexOf(LowerChars, c)
    ELSE 10 + IndexOf(UpperChars, c)

RECURSIVE ClassLess(_, _)
ClassLess(s, t) ==
    IF t = <<>> THEN FALSE
    ELSE IF s = <<>> THEN TRUE
    ELSE IF s[1] = t[1] THEN ClassLess(Tail(s), Tail(t))
    ELSE ClassCharRank(s[1]) < ClassCharRank(t[1])

RECURSIVE SortedClasses(_)
\* the class names of sorted(self.generated_classes.items())
SortedClasses(S) ==
    IF S = {} THEN <<>>
    ELSE LET m == CHOOSE x \in S : \A y \in S \ {x} : ClassLess(x, y)
         IN  <<m>> \o SortedClasses(S \ {m})

\* f".{class_name} {{"
RuleOpening(class_name) == <<".">> \o class_name \o <<" ", "{">>

\* the lines of one rule: the opening, f"  {prop}: {val};" per style, "}" and ""
RuleLines(class_name, styles) ==
    <<RuleOpening(class_name)>>
      \o [i \in 1..Len(styles) |-> <<" ", " ", styles[i].k, ":", " ">> \o styles[i].v \o <<";">>]
      \o << <<"}">>, <<>> >>

RECURSIVE ChildRuleLines(_, _, _)
\* the loop over the sorted items of self.generated_classes
ChildRuleLines(names, classes, root_class) ==
    IF names = <<>> THEN <<>>
    ELSE (IF Head(names) # root_class
          THEN RuleLines(Head(names), Get(classes, Head(names))) ELSE <<>>)
           \o ChildRuleLines(Tail(names), classes, root_class)

AutoGenStartLine == <<"/","/"," ","=","=","=","=","=","=","=","=","=","=","=","=","=","=","=","=","=","=","=","="," ","A","U","T","O","-","G","E","N","-","S","T","A","R","T"," ","=","=","=","=","=","=","=","=","=","=","=","=","=","=","=","=","=","=","=","=">>

AutoGenEndLine == <<"/","/"," ","=","=","=","=","=","=","=","=","=","=","=","=","=","=","=","=","=","=","=","="," ","A","U","T","O","-","G","E","N","-","E","N","D"," ","=","=","=","=","=","=","=","=","=","=","=","=","=","=","=","=","=","=","=","=">>

\* generate_scss(node, import_tokens) on a generator whose generated_classes
\* is classes: the lines that are joined into the returned text, with the
\* generator's fields after the call
generate_scss(cname, classes, node, import_tokens) ==
    LET rb          == node.absoluteBoundingBox
        root_class  == cname
        rstyles     == _generate_node_styles(node, <<>>, TRUE, 0, 1, rb)
        acc         == _collect_node_styles([classes |-> classes, visits |-> <<>>],
                                            cname, node, node)
    IN  [root_bounds |-> rb,
         root_node |-> <<node>>,
         root_styles |-> rstyles,
         generated_classes |-> acc.classes,
         visits |-> acc.visits,
         lines |->
            << AutoGenStartLine,
               <<"/","/"," ","G","e","n","e","r","a","t","e","d"," ","f","r","o","m"," ","F","i","g","m","a"," ","-"," ","d","o"," ","n","o","t"," ","m","o","d","i","f","y"," ","m","a","n","u","a","l","l","y">>,
               <<>> >>
            \o (IF import_tokens
                THEN << <<"@","i","m","p","o","r","t"," ","'",".",".","/",".",".","/","s","t","y","l","e","s","/","d","e","s","i","g","n","-","t","o","k","e","n","s","'",";">>, <<>> >> ELSE <<>>)
            \o RuleLines(root_class, rstyles)
            \o ChildRuleLines(SortedClasses(Keys(acc.classes)), acc.classes, root_class)
            \o << AutoGenEndLine, <<>>, <<"/","/"," ","C","u","s","t","o","m"," ","s","t","y","l","e","s"," ","b","e","l","o","w">>, <<>> >>]

MaxScssCalls == 2

RunLooks == { LookList[1], LookList[3], LookList[5] }

\* small components: one or two children, no nesting
RunTrees ==
    { MakeTree(Box(0, 0, 200, 48), "plain", "stack", kids, <<>>) :
        kids \in UNION { [1..n -> RunLooks] : n \in 1..2 } }

\* SCSSComponentGenerator(cname), not called yet
InitScssRuns ==
    /\ component_name \in ComponentNames
    /\ scss_request = [cname |-> component_name, node |-> DefaultNode]
    /\ root_bounds = NoBox
    /\ root_node = <<>>
    /\ generated_classes = <<>>
    /\ root_styles = <<>>
    /\ visits = <<>>
    /\ scss_calls = 0
    /\ scss_output = <<>>
    /\ IdleConverter
    /\ IdleExtractors
    /\ IdleStates
    /\ IdleComponentGenerator
    /\ IdleTokenRuns
    /\ IdleRequest
    /\ IdleCache
    /\ IdleWatch
    /\ IdleRegenerate

\* one more generate_scss(node, import_tokens) call on the same generator
GenerateScssCall ==
    \E node \in RunTrees, import_tokens \in BOOLEAN :
        LET out == generate_scss(component_name, generated_classes, node, import_tokens)
        IN  /\ scss_calls < MaxScssCalls
            /\ scss_request' = [cname |-> component_name, node |-> node]
            /\ root_bounds' = out.root_bounds
            /\ root_node' = out.root_node
            /\ root_styles' = out.root_styles
            /\ generated_classes' = out.generated_classes
            /\ visits' = out.visits
            /\ scss_output' = out.lines
            /\ scss_calls' = scss_calls + 1
            /\ UNCHANGED <<component_name, respVars, normVars, tokenVars, variantVars,
                           stateVars, genVars, runVars, requestVars, cacheVars,
                           watchVars, regenVars>>

NextScssRuns == GenerateScssCall

SpecScssRuns == InitScssRuns /\ [][NextScssRuns]_vars

-----------------------------------------------------------------------------
(* TypeScriptGenerator (generators/typescript_generator.py).  A text is the *)
(* sequence of its lines, the pieces "\n".join puts together.               *)

RECURSIVE ExpandChars(_)
\* the replace calls of _to_property_name, character by character
ExpandChars(text) ==
    IF text = <<>> THEN <<>>
    ELSE LET c == Head(text)
         IN  (IF c \in {"<", ">", "/", "\\", "(", ")", "[", "]", "{", "}", ":", ";",
                        ",", ".", "!", "?", "-", "_"}
              THEN <<" ">>
              ELSE IF c = "&" THEN <<"a","n","d">>
              ELSE IF c = "+" THEN <<"p","l","u","s">>
              ELSE IF c = "=" THEN <<"e","q","u","a","l","s">>
              ELSE <<c>>) \o ExpandChars(Tail(text))

StopWords == { <<"t","h","e">>, <<"a">>, <<"a","n">>, <<"t","o">>, <<"f","o","r">>, <<"o","f">>, <<"i","n">>, <<"o","n">>, <<"a","t">> }

RECURSIVE CamelTail(_, _)
CamelTail(words, i) ==
    IF i > Len(words) THEN <<>>
    ELSE <<UpperChar(words[i][1])>> \o Lower(Tail(words[i])) \o CamelTail(words, i + 1)

\* TypeScriptGenerator._to_property_name
_to_property_name(text) ==
    LET words == SelectSeq(SplitOn(ExpandChars(text), " "),
                           LAMBDA w : w # <<>> /\ Lower(w) \notin StopWords)
    IN  IF words = <<>> THEN <<"t","e","x","t">>
        ELSE LET camel == Lower(words[1]) \o CamelTail(words, 2)
                 prop  == IF camel = <<>> \/ ~IsAlpha(camel[1])
                          THEN <<"v","a","l","u","e">> \o Capitalize(camel) ELSE camel
                 kept  == SelectSeq(prop, IsAlnum)
             IN  IF kept = <<>> THEN <<"t","e","x","t">> ELSE kept

ContainsAny(s, subs) == \E sub \in subs : Contains(s, sub)

EndsWithAny(s, subs) == \E sub \in subs : LastN(s, Len(sub)) = sub /\ Len(s) >= Len(sub)

StartsWithAny(s, subs) ==
    \E sub \in subs : Len(s) >= Len(sub) /\ SubSeq(s, 1, Len(sub)) = sub

OrName(name, default) == IF name = <<>> THEN default ELSE name

\* the properties _analyze_node_for_inputs adds for the node itself; names
\* of the model stay under 41 characters, where _abbreviate is not called
InputsOfNode(node) ==
    LET lower == Lower(node.name)
        text  == IF node.type = "TEXT"
                 THEN { _to_property_name(OrName(node.name, <<"t","e","x","t">>)) } ELSE {}
        image == IF /\ node.type \in {"RECTANGLE", "ELLIPSE", "VECTOR"}
                    /\ \/ \E i \in 1..Len(node.fills) : node.fills[i].type = "IMAGE"
                       \/ ContainsAny(lower, { <<"i","m","a","g","e">>, <<"i","c","o","n">>, <<"l","o","g","o">> })
                 THEN LET prop == _to_property_name(OrName(node.name, <<"i","m","a","g","e">>))
                      IN  { IF EndsWithAny(Lower(prop), { <<"u","r","l">>, <<"s","r","c">> })
                            THEN prop ELSE prop \o <<"U","r","l">> }
                 ELSE {}
        color == IF ContainsAny(lower, { <<"c","o","l","o","r">>, <<"a","c","c","e","n","t">>, <<"t","h","e","m","e">> })
                 THEN LET prop == _to_property_name(OrName(node.name, <<"c","o","l","o","r">>))
                      IN  { IF EndsWithAny(Lower(prop), { <<"c","o","l","o","r">> })
                            THEN prop ELSE prop \o <<"C","o","l","o","r">> }
                 ELSE {}
    IN  text \cup image \cup color

RECURSIVE _analyze_node_for_inputs(_)
RECURSIVE InputsOfChildren(_, _)
InputsOfChildren(children, i) ==
    IF i > Len(children) THEN {}
    ELSE _analyze_node_for_inputs(children[i]) \cup InputsOfChildren(children, i + 1)

\* TypeScriptGenerator._analyze_node_for_inputs: what it adds to self.inputs
_analyze_node_for_inputs(node) ==
    InputsOfNode(node) \cup InputsOfChildren(node.children, 1)

\* TypeScriptGenerator._infer_input_type
_infer_input_type(input_name) ==
    LET lower == Lower(input_name)
    IN  IF ContainsAny(lower, { <<"u","r","l">>, <<"s","r","c">>, <<"i","m","a","g","e">>, <<"i","c","o","n">>, <<"c","o","l","o","r">>, <<"t","h","e","m","e">> })
        THEN <<"s","t","r","i","n","g">>
        ELSE IF ContainsAny(lower, { <<"c","o","u","n","t">>, <<"n","u","m","b","e","r">>, <<"a","m","o","u","n","t">>, <<"t","o","t","a","l">> })
        THEN <<"n","u","m","b","e","r">>
        ELSE IF \/ StartsWithAny(lower, { <<"i","s">>, <<"h","a","s">>, <<"s","h","o","w">> })
                \/ ContainsAny(lower, { <<"e","n","a","b","l","e","d">>, <<"v","i","s","i","b","l","e">>, <<"a","c","t","i","v","e">>, <<"d","i","s","a","b","l","e","d">> })
        THEN <<"b","o","o","l","e","a","n">>
        ELSE <<"s","t","r","i","n","g">>

\* TypeScriptGenerator._get_default_value
_get_default_value(type_name) ==
    IF type_name = <<"n","u","m","b","e","r">> THEN <<"0">>
    ELSE IF type_name = <<"b","o","o","l","e","a","n">> THEN <<"f","a","l","s","e">>
    ELSE <<"'","'">>

\* the order of str on property names: digits, upper case, lower case
NameCharRank(c) ==
    IF c \in Range(DigitChars) THEN IndexOf(DigitChars, c)
    ELSE IF c \in Range(UpperChars) THEN 10 + IndexOf(UpperChars, c)
    ELSE 40 + IndexOf(LowerChars, c)

RECURSIVE NameLess(_, _)
NameLess(s, t) ==
    IF t = <<>> THEN FALSE
    ELSE IF s = <<>> THEN TRUE
    ELSE IF s[1] = t[1] THEN NameLess(Tail(s), Tail(t))
    ELSE NameCharRank(s[1]) < NameCharRank(t[1])

RECURSIVE SortedNames(_)
\* sorted(self.inputs)
SortedNames(S) ==
    IF S = {} THEN <<>>
    ELSE LET m == CHOOSE x \in S : \A y \in S \ {x} : NameLess(x, y)
         IN  <<m>> \o SortedNames(S \ {m})

InputLine(input_name) ==
    LET input_type == _infer_input_type(input_name)
    IN  <<" "," ","@","I","n","p","u","t","(",")"," ">> \o input_name \o <<":"," ">> \o input_type \o <<" ","="," ">>
          \o _get_default_value(input_type) \o <<";">>

\* TypeScriptGenerator(component_name).generate_component(node): the lines
TypeScriptLines(cname, node) ==
    LET selector   == <<"a","p","p","-">> \o cname
        class_name == to_pascal_case(cname) \o <<"C","o","m","p","o","n","e","n","t">>
        inputs     == SortedNames(_analyze_node_for_inputs(node))
    IN  << <<"i","m","p","o","r","t"," ","{"," ","C","o","m","p","o","n","e","n","t",","," ","I","n","p","u","t"," ","}"," ","f","r","o","m"," ","'","@","a","n","g","u","l","a","r","/","c","o","r","e","'",";">>,
           <<"i","m","p","o","r","t"," ","{"," ","C","o","m","m","o","n","M","o","d","u","l","e"," ","}"," ","f","r","o","m"," ","'","@","a","n","g","u","l","a","r","/","c","o","m","m","o","n","'",";">>,
           <<>>,
           <<"/","*","*"," ">> \o class_name \o <<" ","-"," ","G","e","n","e","r","a","t","e","d"," ","f","r","o","m"," ","F","i","g","m","a"," ","*","/">>,
           <<"@","C","o","m","p","o","n","e","n","t","(","{">>,
           <<" "," ","s","e","l","e","c","t","o","r",":"," ","'">> \o selector \o <<"'",",">>,
           <<" "," ","s","t","a","n","d","a","l","o","n","e",":"," ","t","r","u","e",",">>,
           <<" "," ","i","m","p","o","r","t","s",":"," ","[","C","o","m","m","o","n","M","o","d","u","l","e","]",",">>,
           <<" "," ","t","e","m","p","l","a","t","e","U","r","l",":"," ","'",".","/">> \o cname \o <<".","c","o","m","p","o","n","e","n","t",".","h","t","m","l","'",",">>,
           <<" "," ","s","t","y","l","e","U","r","l","s",":"," ","[","'",".","/">> \o cname \o <<".","c","o","m","p","o","n","e","n","t",".","s","c","s","s","'","]">>,
           <<"}",")">>,
           <<"e","x","p","o","r","t"," ","c","l","a","s","s"," ">> \o class_name \o <<" ","{">>,
           <<" "," ">> \o AutoGenStartLine >>
        \o (IF inputs # <<>>
            THEN [i \in 1..Len(inputs) |-> InputLine(inputs[i])]
            ELSE << <<" "," ","/","/"," ","N","o"," ","d","y","n","a","m","i","c"," ","i","n","p","u","t","s"," ","d","e","t","e","c","t","e","d">> >>)
        \o << <<" "," ">> \o AutoGenEndLine,
              <<>>,
              <<" "," ","c","o","n","s","t","r","u","c","t","o","r","(",")"," ","{","}">>,
              <<"}">>,
              <<>> >>

-----------------------------------------------------------------------------
(* FigmaClient._make_request (figma/client.py), one attempt per step         *)
(* (SpecRequest, SpecRequestFair)                                          *)

MAX_RETRIES == 3

RETRY_DELAY == 60

\* what session.request does: an HTTP status, or an exception of requests
Answer(status) == [status |-> status, exception |-> ""]

Failure(exception) == [status |-> 0, exception |-> exception]

Responses ==
    { Answer(200), Answer(403), Answer(404), Answer(429), Answer(500),
      Failure("Timeout"), Failure("ConnectionError") }

Endpoints ==
    { "files/KEY", "files/KEY/nodes", "images/KEY", "files/KEY/styles",
      "files/KEY/variables/local" }

Sent(response) ==
    [event |-> "request", status |-> response.status, exception |-> response.exception,
     seconds |-> 0]

Slept(seconds) == [event |-> "sleep", status |-> 0, exception |-> "", seconds |-> seconds]

MayRetry_once_more(count) == count <= MAX_RETRIES

\* if retry_count < self.MAX_RETRIES
MayRetry(count) == count < MAX_RETRIES

Raised(name) == <<[raised |-> name]>>

\* the body of _make_request after session.request gave response: the
\* outcome of the call, <<>> when it sleeps and calls itself again
Handle(response, count) ==
    IF response.exception # "" THEN Raised("FigmaConnectionError")
    ELSE IF response.status = 429
    THEN IF MayRetry(count) THEN <<>> ELSE Raised("FigmaRateLimitError")
    ELSE IF response.status = 403 THEN Raised("FigmaAuthError")
    ELSE IF response.status = 404 THEN Raised("FigmaNotFoundError")
    ELSE IF response.status = 200 THEN <<[raised |-> ""]>>
    ELSE Raised("FigmaAPIError")

\* a client on which _make_request(endpoint) has just been called
InitRequest ==
    /\ request_call \in { <<e>> : e \in Endpoints }
    /\ retry_count = 0
    /\ request_log = <<>>
    /\ request_outcome = <<>>
    /\ IdleGenerator
    /\ IdleConverter
    /\ IdleExtractors
    /\ IdleStates
    /\ IdleComponentGenerator
    /\ IdleTokenRuns
    /\ IdleScssRuns
    /\ IdleCache
    /\ IdleWatch
    /\ IdleRegenerate

\* one execution of the body of _make_request: the request is sent and the
\* response handled; on a retry the call sleeps and calls itself
AttemptRequest ==
    \E response \in Responses :
        LET outcome == Handle(response, retry_count)
        IN  /\ request_call # <<>>
            /\ request_outcome = <<>>
            /\ request_outcome' = outcome
            /\ request_log' = request_log \o <<Sent(response)>>
                                \o (IF outcome = <<>> THEN <<Slept(RETRY_DELAY)>> ELSE <<>>)
            /\ retry_count' = IF outcome = <<>> THEN retry_count + 1 ELSE retry_count
            /\ UNCHANGED <<request_call, scssVars, respVars, normVars, tokenVars,
                           variantVars, stateVars, genVars, runVars, scssRunVars,
                           cacheVars, watchVars, regenVars>>

NextRequest == AttemptRequest

SpecRequest == InitRequest /\ [][NextRequest]_vars

\* the interpreter runs the call on: sleep returns and the request is sent
SpecRequestFair == SpecRequest /\ WF_vars(AttemptRequest)

-----------------------------------------------------------------------------
(* Regeneration: the write phase of ComponentGenerator.generate_component   *)
(* and _merge_generated_content (SpecRegenerate).  A text is the sequence   *)
(* of its lines; the empty text is the one empty line.                      *)

AUTO_GEN_END == <<"=","=","=","=","=","=","=","=","=","=","=","=","=","=","=","=","=","=","=","="," ","A","U","T","O","-","G","E","N","-","E","N","D"," ","=","=","=","=","=","=","=","=","=","=","=","=","=","=","=","=","=","=","=","=">>

EmptyText == << <<>> >>

\* a + "\n" + b on texts
JoinTexts(a, b) == a \o b

IsBlank(line) == \A i \in 1..Len(line) : line[i] = " "

RECURSIVE DropBlankHead(_)
DropBlankHead(text) ==
    IF text # <<>> /\ IsBlank(Head(text)) THEN DropBlankHead(Tail(text)) ELSE text

RECURSIVE DropBlankEnd(_)
DropBlankEnd(text) ==
    IF text # <<>> /\ IsBlank(text[Len(text)])
    THEN DropBlankEnd(SubSeq(text, 1, Len(text) - 1)) ELSE text

\* str.strip() on a text whose white space is blanks and line ends
StripText(text) ==
    LET kept == DropBlankEnd(DropBlankHead(text))
    IN  IF kept = <<>> THEN EmptyText
        ELSE IF Len(kept) = 1 THEN << StripChar(kept[1], " ") >>
        ELSE << LStripChar(kept[1], " ") >>
               \o SubSeq(kept, 2, Len(kept) - 1)
               \o << RStripChar(kept[Len(kept)], " ") >>

\* the first place of sub in line, 0 when there is none
FirstPlace(line, sub) ==
    IF Contains(line, sub)
    THEN CHOOSE i \in 1..(Len(line) - Len(sub) + 1) :
            /\ SubSeq(line, i, i + Len(sub) - 1) = sub
            /\ \A j \in 1..(i - 1) : SubSeq(line, j, j + Len(sub) - 1) # sub
    ELSE 0

\* the last place of the character c in line, 0 when there is none
LastPlace(line, c) ==
    IF c \in Range(line)
    THEN CHOOSE i \in 1..Len(line) : line[i] = c /\ \A j \in (i + 1)..Len(line) : line[j] # c
    ELSE 0

\* pattern.search for re.escape(marker) + "(.*)" with DOTALL: group(1), the
\* text after the first place of marker, as <<text>>; <<>> without a match
AfterMarker(text, marker) ==
    LET hits == { i \in 1..Len(text) : Contains(text[i], marker) }
    IN  IF hits = {} THEN <<>>
        ELSE LET i == CHOOSE k \in hits : \A j \in hits : k <= j
                 p == FirstPlace(text[i], marker)
             IN  << << SubSeq(text[i], p + Len(marker), Len(text[i])) >>
                       \o SubSeq(text, i + 1, Len(text)) >>

\* ComponentGenerator._extract_custom_code
_extract_custom_code(content) ==
    LET slashes == AfterMarker(content, <<"/","/"," ">> \o AUTO_GEN_END)
        angles  == AfterMarker(content, <<"<","!","-","-"," ">> \o AUTO_GEN_END \o <<" ","-","-",">">>)
    IN  IF slashes # <<>> THEN StripText(slashes[1])
        ELSE IF angles # <<>> THEN StripText(angles[1])
        ELSE EmptyText

\* new_content.rsplit("}", 1)[0], as <<text>>; <<>> when there is no "}"
BeforeLastBrace(text) ==
    LET hits == { i \in 1..Len(text) : "}" \in Range(text[i]) }
    IN  IF hits = {} THEN <<>>
        ELSE LET i == CHOOSE k \in hits : \A j \in hits : k >= j
             IN  << SubSeq(text, 1, i - 1)
                      \o << SubSeq(text[i], 1, LastPlace(text[i], "}") - 1) >> >>

\* ComponentGenerator._merge_generated_content on the text of the existing file
_merge_generated_content(existing_content, new_content, file_type) ==
    LET existing_custom == _extract_custom_code(existing_content)
    IN  IF existing_custom # EmptyText
        THEN IF file_type = "typescript"
             THEN LET merged == BeforeLastBrace(new_content)
                  IN  IF merged # <<>>
                      THEN JoinTexts(JoinTexts(merged[1], existing_custom), << <<"}">> >>)
                      ELSE new_content
             ELSE IF file_type \in {"html", "scss"}
             THEN JoinTexts(new_content, existing_custom)
             ELSE new_content
        ELSE new_content

\* one file of the "Write files" part: on_disk is <<>> or <<the text>>
WrittenFile(on_disk, regenerate, content, file_type) ==
    IF regenerate /\ on_disk # <<>>
    THEN _merge_generated_content(on_disk[1], content, file_type)
    ELSE content

\* the "Write files" part of generate_component for the TypeScript and the
\* SCSS file, with the contents the generators give for the node
WriteComponentFiles(on_disk, cname, node, regenerate) ==
    [ts   |-> << WrittenFile(on_disk.ts, regenerate, TypeScriptLines(cname, node),
                             "typescript") >>,
     scss |-> << WrittenFile(on_disk.scss, regenerate,
                             generate_scss(cname, <<>>, node, TRUE).lines, "scss") >>]

MaxRuns == 2

NoFiles == [ts |-> <<>>, scss |-> <<>>]

\* what the user wrote: a rule after "// Custom styles below", a method
\* after the constructor
UserRule == <<".","n","o","t","e"," ","{"," ","c","o","l","o","r",":"," ","r","e","d",";"," ","}">>

UserMethod == <<" "," ","o","n","C","l","i","c","k","(",")",":"," ","v","o","i","d"," ","{","}">>

UserCodes == [scss : { <<>>, <<UserRule>> }, ts : { <<>>, <<UserMethod>> }]

\* the text with the lines code put in before its last n lines
Inserted(text, code, n) ==
    SubSeq(text, 1, Len(text) - n) \o code \o SubSeq(text, Len(text) - n + 1, Len(text))

\* the files after the user edited what the first generation wrote
Edited(written, code) ==
    [ts   |-> << Inserted(written.ts[1], code.ts, 2) >>,
     scss |-> << Inserted(written.scss[1], code.scss, 1) >>]

RegenNames == { <<"m","y","-","b","u","t","t","o","n">>, <<"c","a","r","d">> }

RegenRequests == [cname : RegenNames, node : RunTrees, code : UserCodes]

\* a component generated once, then edited by the user
InitRegenerate ==
    /\ regen_request \in { <<r>> : r \in RegenRequests }
    /\ component_files =
          Edited(WriteComponentFiles(NoFiles, regen_request[1].cname,
                                     regen_request[1].node, FALSE),
                 regen_request[1].code)
    /\ regen_runs = 0
    /\ after_first = <<>>
    /\ IdleGenerator
    /\ IdleConverter
    /\ IdleExtractors
    /\ IdleStates
    /\ IdleComponentGenerator
    /\ IdleTokenRuns
    /\ IdleScssRuns
    /\ IdleRequest
    /\ IdleCache
    /\ IdleWatch

\* generate_component(..., regenerate=True) from its "Write files" part on
Regenerate ==
    /\ regen_request # <<>>
    /\ regen_runs < MaxRuns
    /\ component_files' = WriteComponentFiles(component_files, regen_request[1].cname,
                                              regen_request[1].node, TRUE)
    /\ regen_runs' = regen_runs + 1
    /\ after_first' = IF regen_runs = 0 THEN <<component_files'>> ELSE after_first
    /\ UNCHANGED <<regen_request, scssVars, respVars, normVars, tokenVars, variantVars,
                   stateVars, genVars, runVars, scssRunVars, requestVars, cacheVars,
                   watchVars>>

NextRegenerate == Regenerate

SpecRegenerate == InitRegenerate /\ [][NextRegenerate]_vars

-----------------------------------------------------------------------------
(* The response cache (cache.py) and the cached calls of FigmaClient        *)
(* (figma/client.py) (SpecCache)                                            *)

DEFAULT_TTL == 3600 * 24

WatchNodeIds == { <<"1",":","2">>, <<"4",":","5">> }

\* _get_cache_path(category, *key_parts) for the one file key of the model:
\* get_file's ("files", file_key, "full") and get_file_nodes'
\* ("nodes", file_key, "nodes", node id)
FileKey == <<"files", <<"f","u","l","l">> >>

NodesKey(node_id) == <<"nodes", node_id>>

CacheKeys == { FileKey } \cup { NodesKey(id) : id \in WatchNodeIds }

\* states of the file at Figma, named by their lastModified
Versions == { 1, 2 }

\* an entry file: the data and time.time() - timestamp, which stops counting
\* one second after the entry expired
Entry(data, age) == [data |-> data, age |-> age]

Aged(entry, seconds) ==
    [entry EXCEPT !.age = IF entry.age + seconds > DEFAULT_TTL
                          THEN DEFAULT_TTL + 1 ELSE entry.age + seconds]

\* the cache directory after seconds have passed
Elapsed(store, seconds) ==
    [key \in CacheKeys |->
        IF store[key] = <<>> THEN <<>> ELSE <<Aged(store[key][1], seconds)>>]

\* APICache(ttl=DEFAULT_TTL, enabled)
APICache(enabled) == [ttl |-> DEFAULT_TTL, enabled |-> enabled]

\* get_cache(enabled): the global instance, created by the first call
get_cache(global, enabled) ==
    IF global = <<>> THEN <<APICache(enabled)>> ELSE global

\* APICache.get: the entry returned (<<>> is None) and the directory after it
APICache_get(self, store, key) ==
    IF ~self.enabled THEN [entry |-> <<>>, store |-> store]
    ELSE IF store[key] = <<>> THEN [entry |-> <<>>, store |-> store]
    ELSE IF store[key][1].age > self.ttl
    THEN [entry |-> <<>>, store |-> [store EXCEPT ![key] = <<>>]]
    ELSE [entry |-> store[key], store |-> store]

\* APICache.set: the directory after it
APICache_set(self, store, key, data) ==
    IF ~self.enabled THEN store
    ELSE [store EXCEPT ![key] = <<Entry(data, 0)>>]

\* get_file and get_file_nodes on a client whose self.cache is cache, with
\* the file at Figma in state version: the data returned, whether it came
\* from the cache, whether it was stored, and the directory after the call
CachedCall(cache, store, key, version) ==
    LET cached == APICache_get(cache, store, key)
    IN  IF cached.entry # <<>>
        THEN [data |-> cached.entry[1].data, hit |-> TRUE, stored |-> FALSE,
              store |-> cached.store]
        ELSE LET after == APICache_set(cache, cached.store, key, version)
             IN  [data |-> version, hit |-> FALSE, stored |-> after # cached.store,
                  store |-> after]

get_file(cache, store, version) == CachedCall(cache, store, FileKey, version)

get_file_nodes(cache, store, node_id, version) ==
    CachedCall(cache, store, NodesKey(node_id), version)

MaxClients == 2

\* the cache directory earlier processes left: empty, fresh or expired entries
OldCacheDirs ==
    { store \in [CacheKeys -> { <<>>, <<Entry(1, 0)>>, <<Entry(1, DEFAULT_TTL + 1)>> }] :
        store[NodesKey(<<"4",":","5">>)] = <<>> }

\* a process that has not imported a client yet
InitCache ==
    /\ _cache = <<>>
    /\ clients = <<>>
    /\ cache_dir \in OldCacheDirs
    /\ remote = 1
    /\ client_log = <<>>
    /\ IdleGenerator
    /\ IdleConverter
    /\ IdleExtractors
    /\ IdleStates
    /\ IdleComponentGenerator
    /\ IdleTokenRuns
    /\ IdleScssRuns
    /\ IdleRequest
    /\ IdleWatch
    /\ IdleRegenerate

\* FigmaClient(use_cache=use_cache)
NewClient ==
    \E use_cache \in BOOLEAN :
        /\ cache_dir # <<>>
        /\ Len(clients) < MaxClients
        /\ _cache' = get_cache(_cache, use_cache)
        /\ clients' = Append(clients, [use_cache |-> use_cache])
        /\ UNCHANGED <<cache_dir, remote, client_log, scssVars, respVars, normVars,
                       tokenVars, variantVars, stateVars, genVars, runVars,
                       scssRunVars, requestVars, watchVars, regenVars>>

Logged(client, call, done) ==
    <<[client |-> client, call |-> call, hit |-> done.hit, stored |-> done.stored,
       data |-> done.data]>>

\* clients[i].get_file(file_key): self.cache is the global instance
GetFile ==
    \E i \in 1..Len(clients) :
        LET done == get_file(_cache[1], cache_dir, remote)
        IN  /\ cache_dir' = done.store
            /\ client_log' = Logged(i, "get_file", done)
            /\ UNCHANGED <<_cache, clients, remote, scssVars, respVars, normVars,
                           tokenVars, variantVars, stateVars, genVars, runVars,
                           scssRunVars, requestVars, watchVars, regenVars>>

\* clients[i].get_file_nodes(file_key, [node_id])
GetFileNodes ==
    \E i \in 1..Len(clients) :
        LET done == get_file_nodes(_cache[1], cache_dir, <<"1",":","2">>, remote)
        IN  /\ cache_dir' = done.store
            /\ client_log' = Logged(i, "get_file_nodes", done)
            /\ UNCHANGED <<_cache, clients, remote, scssVars, respVars, normVars,
                           tokenVars, variantVars, stateVars, genVars, runVars,
                           scssRunVars, requestVars, watchVars, regenVars>>

\* somebody edits the file in Figma
RemoteEdit ==
    /\ cache_dir # <<>>
    /\ remote + 1 \in Versions
    /\ remote' = remote + 1
    /\ UNCHANGED <<_cache, clients, cache_dir, client_log, scssVars, respVars,
                   normVars, tokenVars, variantVars, stateVars, genVars, runVars,
                   scssRunVars, requestVars, watchVars, regenVars>>

\* more than the time to live passes
Expire ==
    /\ cache_dir # <<>>
    /\ cache_dir' = Elapsed(cache_dir, DEFAULT_TTL + 1)
    /\ cache_dir' # cache_dir
    /\ UNCHANGED <<_cache, clients, remote, client_log, scssVars, respVars, normVars,
                   tokenVars, variantVars, stateVars, genVars, runVars, scssRunVars,
                   requestVars, watchVars, regenVars>>

NextCache == NewClient \/ GetFile \/ GetFileNodes \/ RemoteEdit \/ Expire

SpecCache == InitCache /\ [][NextCache]_vars

-----------------------------------------------------------------------------
(* The watch command (cli.py) (SpecWatch, SpecWatchFair) *)

\* the --interval option, in seconds
Interval == DEFAULT_TTL \div 2

\* the node node_id as the file holds it in state version
WatchNode(node_id, version) ==
    [GenNode(0) EXCEPT !.id = node_id, !.cornerRadius = 4 * version]

\* the data part of the response to files/KEY/nodes?ids=node_id
NodesOf(node_id, version) ==
    << [k |-> node_id, v |-> [document |-> WatchNode(node_id, version)]] >>

Succeeded(outcome) == "raised" \notin DOMAIN outcome

RECURSIVE RegenerateAll(_, _, _)
\* the loop "for nid, cname in components" from component i on: each
\* generate_component call fetches its node through the client, and what it
\* raises is caught and printed
RegenerateAll(acc, watched, i) ==
    IF i > Len(watched) THEN acc
    ELSE LET c       == watched[i]
             fetched == get_file_nodes(acc.cache, acc.store, c.node_id, acc.remote)
             done    == generate_component(
                            [dirs |-> acc.dirs, files |-> acc.files],
                            [node_id |-> c.node_id, component_name |-> c.name,
                             regenerate |-> TRUE, dry_run |-> FALSE,
                             framework |-> "angular",
                             nodes_data |-> NodesOf(c.node_id, fetched.data),
                             served |-> {}])
         IN  RegenerateAll(
                 [acc EXCEPT !.store = fetched.store,
                             !.dirs = done.dirs,
                             !.files = done.files,
                             !.regenerated[c.node_id] =
                                 <<[fed |-> fetched.data, outcome |-> done.result]>>],
                 watched, i + 1)

\* one iteration of the loop of watch when the API answers
watch_iteration(cache, store, version, disk, last, done_before, watched) ==
    LET fetched_file        == get_file(cache, store, version)
        current_modified == fetched_file.data
        start            == [cache |-> cache, store |-> fetched_file.store, remote |-> version,
                             dirs |-> disk.dirs, files |-> disk.files,
                             regenerated |-> done_before]
        after            == IF last # <<>> /\ current_modified # last[1]
                            THEN RegenerateAll(start, watched, 1)
                            ELSE start
    IN  [last_modified |-> IF last = <<>> \/ current_modified # last[1]
                           THEN <<current_modified>> ELSE last,
         store |-> Elapsed(after.store, Interval),
         dirs |-> after.dirs,
         files |-> after.files,
         regenerated |-> after.regenerated]

Card == [node_id |-> <<"1",":","2">>, name |-> <<"m","y","-","c","a","r","d">>]

Button == [node_id |-> <<"4",":","5">>, name |-> <<"m","y","-","b","u","t","t","o","n">>]

WatchedComponents == { <<Card>>, <<Card, Button>> }

\* the cache directory earlier commands left: nothing, or entries written
\* just now or one interval ago
WatchCacheDirs ==
    [CacheKeys -> { <<>>, <<Entry(1, 0)>>, <<Entry(1, Interval)>> }]

\* watch -f KEY -n ... -m ... up to the loop: client = FigmaClient()
InitWatch ==
    /\ watch_components \in WatchedComponents
    /\ last_modified = <<>>
    /\ regenerated = [id \in WatchNodeIds |-> <<>>]
    /\ watch_round = 0
    /\ _cache = get_cache(<<>>, TRUE)
    /\ clients = <<[use_cache |-> TRUE]>>
    /\ cache_dir \in WatchCacheDirs
    /\ remote = 1
    /\ client_log = <<>>
    /\ dirs = {}
    /\ files = <<>>
    /\ gen_request = <<>>
    /\ gen_result = <<>>
    /\ IdleGenerator
    /\ IdleConverter
    /\ IdleExtractors
    /\ IdleStates
    /\ IdleTokenRuns
    /\ IdleScssRuns
    /\ IdleRequest
    /\ IdleRegenerate

\* the body of "while running", the sleep of interval seconds included
Poll ==
    \E done \in { watch_iteration(_cache[1], cache_dir, remote,
                                  [dirs |-> dirs, files |-> files],
                                  last_modified, regenerated, watch_components) } :
        /\ watch_components # <<>>
        /\ last_modified' = done.last_modified
        /\ cache_dir' = done.store
        /\ dirs' = done.dirs
        /\ files' = done.files
        /\ regenerated' = done.regenerated
        /\ watch_round' = 1 - watch_round
        /\ UNCHANGED <<watch_components, _cache, clients, remote, client_log,
                       gen_request, gen_result, scssVars, respVars, normVars,
                       tokenVars, variantVars, stateVars, runVars, scssRunVars,
                       requestVars, regenVars>>

\* somebody edits the file in Figma while the watch runs
EditWatched ==
    /\ watch_components # <<>>
    /\ remote + 1 \in Versions
    /\ remote' = remote + 1
    /\ UNCHANGED <<watch_components, last_modified, regenerated, watch_round, _cache,
                   clients, cache_dir, client_log, genVars, scssVars, respVars,
                   normVars, tokenVars, variantVars, stateVars, runVars, scssRunVars,
                   requestVars, regenVars>>

NextWatch == Poll \/ EditWatched

SpecWatch == InitWatch /\ [][NextWatch]_vars

\* a step that is an iteration of the loop: only Poll changes watch_round
Iteration == watch_round' = 1 - watch_round

\* the loop keeps running: every iteration is followed by the next
SpecWatchFair == SpecWatch /\ WF_watch_round(Iteration)

-----------------------------------------------------------------------------
(* Properties of the stylesheet assembly (Spec) *)

Generated == root_node # <<>>

RECURSIVE DescendantsOf(_)
RECURSIVE DescendantsFrom(_, _)
\* the descendants of a node, in document order
DescendantsOf(node) == DescendantsFrom(node.children, 1)

DescendantsFrom(children, i) ==
    IF i > Len(children) THEN <<>>
    ELSE <<children[i]>> \o DescendantsOf(children[i]) \o DescendantsFrom(children, i + 1)

VisitIndices == 1..Len(visits)

Siblings(i, j) == i # j /\ visits[i].parent = visits[j].parent

\* the generic element names among the names of Looks
IsGenericName(name) == name \in { <<"R","e","c","t","a","n","g","l","e">>, <<"F","r","a","m","e"," ","1">> }

\* the sanitized form of the names of Looks
PlainName(name) ==
    CASE name = <<"R","e","c","t","a","n","g","l","e">> -> <<"r","e","c","t","a","n","g","l","e">>
      [] name = <<"B","u","t","t","o","n"," ","L","a","b","e","l">> -> <<"b","u","t","t","o","n","-","l","a","b","e","l">>
      [] name = <<"I","c","o","n","/","L","e","f","t">> -> <<"i","c","o","n","-","l","e","f","t">>
      [] name = <<"F","r","a","m","e"," ","1">> -> <<"f","r","a","m","e","-","1">>

\* the last six characters of a node id of NodeId, ":" and ";" turned to "-"
SuffixOfId(id) == IF id[1] = "I" THEN <<"2","1","-","1","0","0">> ELSE <<"1", "-", "1", id[4]>>

HasSameNamedSibling(i) ==
    \E j \in VisitIndices : Siblings(i, j) /\ visits[j].node.name = visits[i].node.name

Prefixed(class_name) == component_name \o <<"_", "_">> \o class_name

Is(styles, key, val) == Has(styles, key) /\ Get(styles, key) = val

\* C1: no two descendants share a rule: class names are pairwise distinct, each
\* descendant's rule is the one stored under its class name, and there are as
\* many rules as descendants with non-empty styles.
C1_OneRulePerDescendant ==
    Generated =>
        /\ \A i, j \in VisitIndices : i # j => visits[i].cls # visits[j].cls
        /\ \A i \in VisitIndices :
              visits[i].styles # <<>> => Is(generated_classes, visits[i].cls, visits[i].styles)
        /\ Len(generated_classes) =
              Cardinality({ i \in VisitIndices : visits[i].styles # <<>> })

\* C2: two generically-named siblings with different ids get different class
\* names, whatever the ids.
C2_GenericSiblingsDiffer ==
    Generated =>
        \A i, j \in VisitIndices :
            ( /\ Siblings(i, j)
              /\ IsGenericName(visits[i].node.name)
              /\ IsGenericName(visits[j].node.name)
              /\ visits[i].node.id # visits[j].node.id )
            => visits[i].cls # visits[j].cls

\* C3 as stated: a generically-named node without a same-named sibling keeps
\* componentName__<plain sanitized name>; only one with a same-named sibling
\* gets the id suffix.
C3_LoneGenericKeepsPlainName ==
    Generated =>
        \A i \in VisitIndices :
            IsGenericName(visits[i].node.name) =>
                visits[i].cls =
                    IF HasSameNamedSibling(i)
                    THEN Prefixed(PlainName(visits[i].node.name) \o <<"-">>
                                    \o SuffixOfId(visits[i].node.id))
                    ELSE Prefixed(PlainName(visits[i].node.name))

\* C3 amended: every generically-named node gets
\* componentName__<sanitized name>-<id suffix>, with or without a same-named
\* sibling; every other node gets componentName__<sanitized name>.
C3_GenericAlwaysSuffixed ==
    Generated =>
        \A i \in VisitIndices :
            visits[i].cls =
                IF IsGenericName(visits[i].node.name)
                THEN Prefixed(PlainName(visits[i].node.name) \o <<"-">>
                                \o SuffixOfId(visits[i].node.id))
                ELSE Prefixed(PlainName(visits[i].node.name))

\* a lone "Rectangle" next to a differently named sibling has been named
C3_Witness ==
    /\ Generated
    /\ \E i, j \in VisitIndices :
          /\ Siblings(i, j)
          /\ visits[i].node.name = <<"R","e","c","t","a","n","g","l","e">>
          /\ ~HasSameNamedSibling(i)

C5_ZIndexIsSiblingIndexPlusOne ==
    Generated =>
        \A i \in VisitIndices :
            Is(visits[i].styles, "z-index", IntStr(visits[i].index + 1))

\* C10: with a four-element corner-radius array, border-radius is the single
\* scalar when the four values are equal and positive, and the four values in
\* top-left, top-right, bottom-right, bottom-left order when they differ, with
\* or without the scalar cornerRadius field.
C10_CornerRadii ==
    Generated =>
        \A i \in VisitIndices :
            LET corner_radii == visits[i].node.rectangleCornerRadii
                st    == visits[i].styles
            IN  Len(corner_radii) = 4 =>
                  IF \A n \in 1..4 : corner_radii[n] = corner_radii[1]
                  THEN corner_radii[1] > 0 => Is(st, "border-radius", Px(corner_radii[1]))
                  ELSE Is(st, "border-radius",
                          Px(corner_radii[1]) \o <<" ">> \o Px(corner_radii[2]) \o <<" ">>
                            \o Px(corner_radii[3]) \o <<" ">> \o Px(corner_radii[4]))

-----------------------------------------------------------------------------
(* Properties of the stylesheet assembly over painted trees (SpecPaint) *)

\* the fills that paint: visible, solid or gradient
PaintingFills(fills) ==
    SelectSeq(fills, LAMBDA f : f.visible /\ f.type \in {"SOLID", "GRADIENT_LINEAR"})

\* the layers of the painting fills, last-listed first
CompositeBackground(fills) ==
    LET p == PaintingFills(fills)
    IN  JoinWith([i \in 1..Len(p) |-> fill_to_background(p[Len(p) + 1 - i])], <<","," ">>)

\* C11: every non-text node with at least one visible solid or gradient fill
\* has a background declaration built from all its visible fills in reverse
\* order; invisible fills and fills of unknown type add nothing and do not
\* suppress the fills after them.
C11_BackgroundFromAllFills ==
    Generated =>
        \A i \in VisitIndices :
            LET n == visits[i].node
            IN  (n.type # "TEXT" /\ PaintingFills(n.fills) # <<>>) =>
                    Is(visits[i].styles, "background", CompositeBackground(n.fills))

\* the first solid stroke of a list that is visible, if any
RECURSIVE FirstVisibleSolid(_)
FirstVisibleSolid(strokes) ==
    IF strokes = <<>> THEN <<>>
    ELSE IF Head(strokes).visible /\ Head(strokes).type = "SOLID" THEN <<Head(strokes)>>
    ELSE FirstVisibleSolid(Tail(strokes))

\* C12: the border comes from the first visible solid stroke of the list,
\* skipping invisible and non-solid strokes before it; there is no border only
\* when the list has no visible solid stroke.
C12_BorderFromFirstVisibleSolid ==
    Generated =>
        \A i \in VisitIndices :
            LET n  == visits[i].node
                fs == FirstVisibleSolid(n.strokes)
            IN  IF fs = <<>> THEN ~Has(visits[i].styles, "border")
                ELSE Is(visits[i].styles, "border",
                        Px(n.strokeWeight) \o <<" ","s","o","l","i","d"," ">> \o _rgba_to_hex(fs[1].color))

PassThroughTypes == {"DOCUMENT", "CANVAS"}

\* the node was allocated a class name and its rule is among the rules
HasRule(d) ==
    \E i \in VisitIndices :
        visits[i].node = d /\ Has(generated_classes, visits[i].cls)

\* C13: a descendant of the root, at any depth, gets a rule if and only if it
\* is not a document/canvas node.
C13_RuleIffNotPassThrough ==
    Generated =>
        LET all == DescendantsOf(root_node[1])
        IN  \A k \in 1..Len(all) :
                HasRule(all[k]) <=> all[k].type \notin PassThroughTypes

-----------------------------------------------------------------------------
(* Properties of the normalizer (SpecNormalize) *)

Normalized == normalize_result # <<>>

RECURSIVE SubtreeOf(_)
\* a node and its descendants, in document order
SubtreeOf(node) == <<node>> \o DescendantsOf(node)

\* the nodes of the file normalize_file was called with
FileNodes ==
    IF file_data[1].document = <<>> THEN <<>> ELSE SubtreeOf(file_data[1].document[1])

IsComponent(node) == \E i \in 1..Len(components) : components[i].id = node.id

\* C14: a node is in the components list if and only if its type is COMPONENT,
\* COMPONENT_SET or INSTANCE, or it is a FRAME whose name begins with an
\* uppercase letter; every node, component or not, is in the node map.
C14_ComponentCandidates ==
    Normalized =>
        \A k \in 1..Len(FileNodes) :
            LET n == FileNodes[k]
            IN  /\ Is(all_nodes, n.id, n)
                /\ IsComponent(n) <=>
                      \/ n.type \in {"COMPONENT", "COMPONENT_SET", "INSTANCE"}
                      \/ /\ n.type = "FRAME"
                         /\ n.name # <<>>
                         /\ n.name[1] \in Range(UpperChars)

AsciiLower == { LowerChars[i] : i \in 1..26 }

\* ^[a-z][a-z0-9-]*$
MatchesKebab(s) ==
    /\ s # <<>>
    /\ s[1] \in AsciiLower
    /\ \A i \in 1..Len(s) : s[i] \in AsciiLower \cup Range(DigitChars) \cup {"-"}

\* C15: every sanitized name matches ^[a-z][a-z0-9-]*$ or is the placeholder;
\* it is never empty, never starts with a digit and never has two delimiters
\* in a row.
C15_SanitizedNameShape ==
    Normalized =>
        \A i \in 1..Len(components) :
            LET s == components[i].name
            IN  /\ MatchesKebab(s) \/ s = <<"c","o","m","p","o","n","e","n","t">>
                /\ s # <<>>
                /\ s[1] \notin Range(DigitChars)
                /\ \A j \in 1..(Len(s) - 1) : ~(s[j] = "-" /\ s[j + 1] = "-")

\* C16: the assets of a component are exactly the ids of the nodes of its
\* subtree that carry an image-type fill.
C16_AssetsAreImageFilled ==
    Normalized =>
        \A i \in 1..Len(components) :
            LET sub == SubtreeOf(components[i].node)
            IN  Range(components[i].assets) =
                    { sub[k].id : k \in { j \in 1..Len(sub) :
                                            \E f \in 1..Len(sub[j].fills) :
                                                sub[j].fills[f].type = "IMAGE" } }

-----------------------------------------------------------------------------
(* Properties of the token extractor (SpecTokens) *)

Extracted == tokens # <<>>

\* the nodes extract_tokens visits: each node of the map with its descendants
VisitedNodes ==
    UNION { Range(SubtreeOf(token_nodes[1][i].v)) : i \in 1..Len(token_nodes[1]) }

\* the hex strings of the visible solid fills and strokes of the visited nodes
VisibleSolidHexes ==
    UNION { PaintColors(n.fills) \cup PaintColors(n.strokes) : n \in VisitedNodes }

\* C17: there are as many colour tokens as distinct hex strings among the
\* visible solid fills and strokes of the visited nodes: a colour occurring
\* several times gives one token, and two hex values never share a name.
C17_OneTokenPerColor ==
    Extracted =>
        LET toks == tokens[1].colors
        IN  /\ Len(toks) = Cardinality(VisibleSolidHexes)
            /\ { toks[i].v : i \in 1..Len(toks) } = VisibleSolidHexes
            /\ \A i, j \in 1..Len(toks) : toks[i].k = toks[j].k => i = j

\* the same red is a fill twice in one node and again in a node that is
\* reached both from the map and as a child, beside two colours without a
\* semantic name
C17_Witness ==
    /\ Extracted
    /\ token_nodes[1] = PaintedNodes(<<Red, Red>>, <<Red>>, <<Ghost, Blue>>, TRUE)
    /\ Len(tokens[1].colors) = 3

\* the values of a scale in ascending order
PositiveSpacings ==
    SortedNumbers({ v \in UNION { { n.paddingLeft, n.paddingRight, n.paddingTop,
                                    n.paddingBottom, n.itemSpacing } : n \in VisitedNodes } :
                      v > 0 })

PositiveRadii ==
    SortedNumbers({ v \in UNION { {n.cornerRadius} \cup Range(n.rectangleCornerRadii) :
                                    n \in VisitedNodes } : v > 0 })

\* the value of every rank has the name of that rank, or scale-N past the list
RankNamed(toks, values, scale_names) ==
    /\ Len(toks) = Len(values)
    /\ \A n \in 1..Len(values) :
          Is(toks, IF n <= Len(scale_names) THEN scale_names[n] ELSE <<"s","c","a","l","e","-">> \o NatStr(n),
             Px(values[n]))

\* C18: spacing and radius tokens are named by ascending rank, xs .. 5xl and
\* sm .. full, then scale-N for the value of rank N; every value has its own
\* name and only values above zero are tokens.
C18_ScaleNames ==
    Extracted =>
        /\ RankNamed(tokens[1].spacing, PositiveSpacings,
                     <<<<"x","s">>, <<"s","m">>, <<"m","d">>, <<"l","g">>, <<"x","l">>, <<"2","x","l">>, <<"3","x","l">>, <<"4","x","l">>, <<"5","x","l">>>>)
        /\ RankNamed(tokens[1].radii, PositiveRadii,
                     <<<<"s","m">>, <<"m","d">>, <<"l","g">>, <<"x","l">>, <<"2","x","l">>, <<"3","x","l">>, <<"f","u","l","l">>>>)

-----------------------------------------------------------------------------
(* Properties of the variant extractor (SpecVariants) *)

\* extract_variants returned a variant group
Grouped == variant_result # <<>> /\ variant_result[1] # NoVariantGroup

\* C19: the keys of every variant's property map are names of the group's
\* declared property definitions: a Key=Value pair with an undeclared key does
\* not appear in the map, and a segment without '=' is dropped.
C19_VariantKeysDeclared ==
    Grouped =>
        \A i \in 1..Len(variant_result[1].variants) :
            Keys(variant_result[1].variants[i].properties)
                \subseteq Keys(variant_node[1].componentPropertyDefinitions)

\* C20: for a grouped-variant node with at least one child the default variant
\* is the variant built from the first child, whatever the kinds of the
\* children.
C20_DefaultIsFirstChild ==
    (variant_result # <<>> /\ variant_node[1].type = "COMPONENT_SET"
        /\ variant_node[1].children # <<>>) =>
        LET first == variant_node[1].children[1]
        IN  /\ Grouped
            /\ variant_result[1].default_variant =
                  << [name |-> first.name, node_id |-> first.id,
                      properties |-> _parse_variant_name(first.name), node |-> first] >>

-----------------------------------------------------------------------------
(* Properties of the interaction-states extractor (SpecStates) *)

\* extract_states has returned for a variant group
StatesExtracted == states # <<>> /\ variant_result # <<>> /\ variant_result[1] # NoVariantGroup

\* the state words that have selectors
StateVocabulary ==
    { <<"h","o","v","e","r">>, <<"f","o","c","u","s">>, <<"p","r","e","s","s","e","d">>, <<"a","c","t","i","v","e">>, <<"d","i","s","a","b","l","e","d">>, <<"s","e","l","e","c","t","e","d">>,
      <<"c","h","e","c","k","e","d">>, <<"e","r","r","o","r">>, <<"l","o","a","d","i","n","g">> }

BaseWords == { <<"d","e","f","a","u","l","t">>, <<"n","o","r","m","a","l">>, <<"r","e","s","t">> }

\* the variants of the group whose value of property prop is the option
VariantsWith(prop, option) ==
    { i \in 1..Len(variant_result[1].variants) :
        /\ Has(variant_result[1].variants[i].properties, prop.name)
        /\ Get(variant_result[1].variants[i].properties, prop.name) = option }

\* an interaction state with selectors was derived from variant i for prop
HasStateFor(i, prop) ==
    \E s \in 1..Len(states[1]) :
        /\ states[1][s].variant = variant_result[1].variants[i]
        /\ states[1][s].property_name = prop.name
        /\ states[1][s].css_selectors # <<>>

\* no interaction state was derived from variant i for prop
NoStateFor(i, prop) ==
    \A s \in 1..Len(states[1]) :
        ~ (/\ states[1][s].variant = variant_result[1].variants[i]
           /\ states[1][s].property_name = prop.name)

\* C21 (as claimed): every declared option that contains a word of the state
\* vocabulary, in any letter case, gets a non-empty selector list, and the
\* options default, normal and rest get no interaction state.
C21_ContainedKeywordSelectors ==
    StatesExtracted =>
        \A p \in 1..Len(variant_result[1].properties) :
            LET prop == variant_result[1].properties[p]
            IN  \A o \in 1..Len(prop.options) :
                    /\ (\E w \in StateVocabulary : Contains(Lower(prop.options[o]), w)) =>
                           \A i \in VariantsWith(prop, prop.options[o]) : HasStateFor(i, prop)
                    /\ Lower(prop.options[o]) \in BaseWords =>
                           \A i \in VariantsWith(prop, prop.options[o]) : NoStateFor(i, prop)

\* C21 (amended): every declared option that is, in any letter case, a key of
\* STATE_KEYWORDS with selectors gets an interaction state carrying exactly
\* those selectors, for each variant that has the option; the options default,
\* normal and rest get no interaction state, and no state has an empty
\* selector list.
C21_KeywordSelectors ==
    StatesExtracted =>
        /\ \A p \in 1..Len(variant_result[1].properties) :
              LET prop == variant_result[1].properties[p]
              IN  \A o \in 1..Len(prop.options) :
                      LET word == Lower(prop.options[o])
                      IN  /\ (Has(STATE_KEYWORDS, word) /\ Get(STATE_KEYWORDS, word) # <<>>) =>
                                 \A i \in VariantsWith(prop, prop.options[o]) :
                                     \E s \in 1..Len(states[1]) :
                                         states[1][s] =
                                             [name |-> word,
                                              css_selectors |-> Get(STATE_KEYWORDS, word),
                                              variant |-> variant_result[1].variants[i],
                                              property_name |-> prop.name]
                          /\ word \in BaseWords =>
                                 \A i \in VariantsWith(prop, prop.options[o]) :
                                     NoStateFor(i, prop)
        /\ \A s \in 1..Len(states[1]) :
              states[1][s].css_selectors # <<>> /\ states[1][s].name \notin BaseWords

\* an upper-case HOVER option of a property whose name is no state word gave
\* :hover, and the REST variant beside it gave nothing
C21_Witness ==
    /\ StatesExtracted
    /\ variant_node[1] = StateSet("COMPONENT_SET", <<"K","i","n","d">>, <<"H","O","V","E","R">>, <<"R","E","S","T">>, 2)
    /\ Len(states[1]) = 1
    /\ states[1][1].name = <<"h","o","v","e","r">>
    /\ states[1][1].css_selectors = <<":hover">>
    /\ states[1][1].variant = variant_result[1].variants[1]

-----------------------------------------------------------------------------
(* Properties of the component generator (SpecGenerate) *)

\* generate_component has ended
GenerateEnded == gen_result # <<>>

\* the node id asked for is not a key of the fetched node map
NodeAbsent ==
    gen_request[1].nodes_data = <<>>
      \/ ~ Has(gen_request[1].nodes_data, gen_request[1].node_id)

\* the disk is as it was when the call was made
DiskUntouched ==
    dirs = gen_request[1].disk.dirs /\ files = gen_request[1].disk.files

C25_DryRunWritesNothing ==
    (GenerateEnded /\ gen_request[1].dry_run /\ ~ NodeAbsent) =>
        /\ DiskUntouched
        /\ "generated_content" \in DOMAIN gen_result[1]

-----------------------------------------------------------------------------
(* Properties of repeated runs of the token extractor (SpecTokenRuns) *)

\* C23: two independent runs of extract_tokens over identical input return
\* identical output, the order of the entries of every collection of the
\* token set, the fontFamilies list among them, included.
C23_RunsAgree ==
    tokens_rerun # <<>> => tokens_rerun = tokens

\* what a TokenExtractor that was never used collects from the nodes
FreshExtraction(nodes) ==
    ExtractFromNodes(NewTokenExtractor, nodes, 1)

-----------------------------------------------------------------------------
(* Properties of the responsive converter (SpecResponsive) *)

LastCall == IF called = <<>> THEN "none" ELSE called[Len(called)]

\* the auto-layout and spacing keys both strategies are to agree on
LayoutKeys ==
    { "display", "flex-direction", "justify-content", "align-items", "gap",
      "padding", "padding-top", "padding-right", "padding-bottom", "padding-left" }

\* the fixed strategy's styles for the node of the last call
FixedStylesOfLastCall ==
    IF LastCall = "root"
    THEN LayoutConverter_convert_layout(layout_request.root, <<>>, <<NoBox>>, 0, 1)
    ELSE LayoutConverter_convert_layout(layout_request.node, <<layout_request.root>>,
                                        <<layout_request.root_bounds>>, 0, 1)

\* C6: for every node the two strategies emit the same auto-layout and spacing
\* keys.
C6_SameLayoutKeys ==
    LastCall # "none" =>
        Keys(result.styles) \cap LayoutKeys = Keys(FixedStylesOfLastCall) \cap LayoutKeys

RootBox == layout_request.root.absoluteBoundingBox

\* C7 as stated: a root with a bounding box, of any width and height, gets
\* width: 100%, margin: 0 auto, max-width its width and min-height its height.
C7_RootPinned ==
    (LastCall = "root" /\ RootBox.present) =>
        /\ Is(result.styles, "width", <<"1","0","0","%">>)
        /\ Is(result.styles, "margin", <<"0"," ","a","u","t","o">>)
        /\ Is(result.styles, "max-width", Px(RootBox.width))
        /\ Is(result.styles, "min-height", Px(RootBox.height))

\* C7 amended: a root with a bounding box gets width: 100%, margin: 0 auto and
\* min-height its height (0 included); it gets max-width its width when the
\* width is positive and no max-width when the width is 0.
C7_RootPinnedWhenPositive ==
    (LastCall = "root" /\ RootBox.present) =>
        /\ Is(result.styles, "width", <<"1","0","0","%">>)
        /\ Is(result.styles, "margin", <<"0"," ","a","u","t","o">>)
        /\ Is(result.styles, "min-height", Px(RootBox.height))
        /\ RootBox.width > 0 => Is(result.styles, "max-width", Px(RootBox.width))
        /\ RootBox.width = 0 => ~Has(result.styles, "max-width")
        /\ RootBox = Box(0, 0, 200, 100) =>
              /\ Is(result.styles, "max-width", <<"2","0","0","p","x">>)
              /\ Is(result.styles, "min-height", <<"1","0","0","p","x">>)
        /\ RootBox.height = 0 => Is(result.styles, "min-height", <<"0","p","x">>)

\* the root call was made on a root whose box is 0 wide
C7_Witness ==
    /\ LastCall = "root"
    /\ RootBox.present
    /\ RootBox.width = 0
    /\ Is(result.styles, "min-height", <<"1","0","0","p","x">>)

\* the container and the element's offset in it, as the last child call saw them
ContainerW == IF layout_request.root_bounds.present
              THEN layout_request.root_bounds.width ELSE root_width

ContainerH == IF layout_request.root_bounds.present
              THEN layout_request.root_bounds.height ELSE root_height

ElementBox == layout_request.node.absoluteBoundingBox

OffsetX == IF layout_request.root_bounds.present
           THEN ElementBox.x - layout_request.root_bounds.x ELSE ElementBox.x

OffsetY == IF layout_request.root_bounds.present
           THEN ElementBox.y - layout_request.root_bounds.y ELSE ElementBox.y

\* num / den as a percentage with one decimal
Percent(num, den) == Fixed(100 * num, den, 1) \o <<"%">>

IsPercent(styles, key) ==
    Has(styles, key) /\ Get(styles, key)[Len(Get(styles, key))] = "%"

\* what one constraint says about its axis: lo/hi are left/right or top/bottom,
\* size is width or height
AxisOk(st, c, lo, hi, size, offset, extent, container) ==
    CASE c = "STRETCH" ->
           /\ IsPercent(st, lo) /\ IsPercent(st, hi) /\ ~Has(st, size)
           /\ container > 0 =>
                 /\ Is(st, lo, Percent(offset, container))
                 /\ Is(st, hi, Percent(container - offset - extent, container))
      [] c = "CENTER" ->
           /\ IsPercent(st, lo) /\ ~Has(st, hi) /\ Is(st, size, Px(extent))
           /\ Has(st, "transform")
           /\ container > 0 => Is(st, lo, Percent(2 * offset + extent, 2 * container))
      [] c = "MAX" ->
           /\ Is(st, hi, Px(container - offset - extent)) /\ ~Has(st, lo)
      [] c = "SCALE" ->
           /\ IsPercent(st, lo) /\ IsPercent(st, size) /\ ~Has(st, hi)
           /\ container > 0 =>
                 /\ Is(st, lo, Percent(offset, container))
                 /\ Is(st, size, Percent(extent, container))
      [] c \in {"MIN", "ABSENT"} ->
           /\ Is(st, lo, Px(offset)) /\ Is(st, size, Px(extent)) /\ ~Has(st, hi)

NonAutoLayoutParent ==
    \/ layout_request.parent = <<>>
    \/ layout_request.parent[1].layoutMode \notin {"HORIZONTAL", "VERTICAL"}

\* C8: for a descendant of a non-auto-layout parent the horizontal constraint
\* alone fixes left/right/width and the vertical one alone top/bottom/height:
\* STRETCH gives both edges as percentages of the container and no size, CENTER
\* a percentage midpoint, a pixel size and a translate, MAX the trailing edge
\* container - offset - size, SCALE a percentage position and size, MIN or no
\* constraint a pixel offset and size; CENTER on both axes gives the one
\* transform translate(-50%, -50%); a zero container dimension raises no
\* division error.
C8_ConstraintPositioning ==
    (LastCall = "child" /\ NonAutoLayoutParent) =>
        LET st == result.styles
            h  == layout_request.node.constraints.horizontal
            v  == layout_request.node.constraints.vertical
        IN  /\ ~result.err
            /\ AxisOk(st, h, "left", "right", "width", OffsetX, ElementBox.width, ContainerW)
            /\ AxisOk(st, v, "top", "bottom", "height", OffsetY, ElementBox.height, ContainerH)
            /\ (h = "CENTER" /\ v = "CENTER") =>
                  Is(st, "transform", <<"t","r","a","n","s","l","a","t","e","(","-","5","0","%",","," ","-","5","0","%",")">>)
            /\ (h = "CENTER" /\ v # "CENTER") => Is(st, "transform", <<"t","r","a","n","s","l","a","t","e","X","(","-","5","0","%",")">>)
            /\ (h # "CENTER" /\ v = "CENTER") => Is(st, "transform", <<"t","r","a","n","s","l","a","t","e","Y","(","-","5","0","%",")">>)
            /\ (h # "CENTER" /\ v # "CENTER") => ~Has(st, "transform")
            /\ (h = "STRETCH" /\ OffsetX = 30 /\ ContainerW = 200) =>
                  Is(st, "left", <<"1","5",".","0","%">>) /\ Is(st, "right", <<"6","0",".","0","%">>)
            /\ (v = "SCALE" /\ OffsetY = 10 /\ ContainerH = 100) =>
                  Is(st, "top", <<"1","0",".","0","%">>) /\ Is(st, "height", <<"3","0",".","0","%">>)

\* an element centred on both axes in a container of width and height 0
C8_Witness ==
    /\ LastCall = "child"
    /\ NonAutoLayoutParent
    /\ layout_request.node.constraints = [horizontal |-> "CENTER", vertical |-> "CENTER"]
    /\ layout_request.root_bounds.present
    /\ ContainerW = 0
    /\ Is(result.styles, "transform", <<"t","r","a","n","s","l","a","t","e","(","-","5","0","%",","," ","-","5","0","%",")">>)

\* px / 16 with three decimals, trailing zeros and a trailing point trimmed, in rem
TrimmedRem(px) ==
    RStripChar(RStripChar(Fixed(px, 16, 3), "0"), ".") \o <<"r", "e", "m">>

NodeOfLastCall == IF LastCall = "root" THEN layout_request.root ELSE layout_request.node

SpacingOk(st, key, px) ==
    Has(st, key) => Get(st, key) = IF use_rem THEN TrimmedRem(px) ELSE Px(px)

\* C9: in relative-unit mode every padding and gap value is px / 16 in rem with
\* trailing zeros trimmed (16 gives 1rem, 8 gives 0.5rem, 24 gives 1.5rem);
\* otherwise it is the pixel value.
C9_RemTrimmed ==
    LastCall # "none" =>
        LET st == result.styles
            n  == NodeOfLastCall
        IN  /\ SpacingOk(st, "gap", n.itemSpacing)
            /\ SpacingOk(st, "padding", n.paddingTop)
            /\ SpacingOk(st, "padding-top", n.paddingTop)
            /\ SpacingOk(st, "padding-right", n.paddingRight)
            /\ SpacingOk(st, "padding-bottom", n.paddingBottom)
            /\ SpacingOk(st, "padding-left", n.paddingLeft)
            /\ (use_rem /\ n.itemSpacing = 16) => Is(st, "gap", <<"1","r","e","m">>)
            /\ (use_rem /\ n.itemSpacing = 8) => Is(st, "gap", <<"0",".","5","r","e","m">>)
            /\ (use_rem /\ n.itemSpacing = 24) => Is(st, "gap", <<"1",".","5","r","e","m">>)

-----------------------------------------------------------------------------
(* Properties of repeated generate_scss calls (SpecScssRuns) *)

\* the selectors of the rules of the last output, the root's aside
OutputSelectors ==
    { scss_output[i] : i \in { j \in 1..Len(scss_output) :
          /\ Len(scss_output[j]) > 3
          /\ scss_output[j][1] = "."
          /\ scss_output[j] # RuleOpening(component_name) } }

\* C28: after any sequence of generate_scss calls on one generator the output
\* of the last call has rules only for descendants of the node of that call:
\* no rule an earlier call produced for another node appears in it.
C28_RulesOfLastCallOnly ==
    scss_calls > 0 =>
        \A sel \in OutputSelectors :
            \E i \in VisitIndices : sel = RuleOpening(visits[i].cls)

-----------------------------------------------------------------------------
(* Properties of _make_request (SpecRequestFair) *)

RequestIndices == { i \in 1..Len(request_log) : request_log[i].event = "request" }

RequestEnded == request_outcome # <<>>

LastStatus == request_log[Len(request_log)].status

RetryDiscipline ==
    /\ Cardinality(RequestIndices) <= MAX_RETRIES + 1
    /\ \A i \in RequestIndices :
          i > 1 => request_log[i - 1] = Slept(RETRY_DELAY)
    /\ \A i \in RequestIndices :
          request_log[i].status \in {403, 404} => (i = Len(request_log) /\ RequestEnded)
    /\ (RequestEnded /\ LastStatus = 429) =>
          (request_outcome = Raised("FigmaRateLimitError")
             /\ \A i \in RequestIndices : request_log[i].status = 429)
    /\ (RequestEnded /\ LastStatus = 403) => request_outcome = Raised("FigmaAuthError")
    /\ (RequestEnded /\ LastStatus = 404) => request_outcome = Raised("FigmaNotFoundError")

\* C30: a _make_request call sends at most MAX_RETRIES + 1 = 4 requests, sleeps
\* RETRY_DELAY between consecutive attempts, raises FigmaRateLimitError after
\* the last 429, raises FigmaAuthError or FigmaNotFoundError on a 403 or a 404
\* at once without a retry, and ends whatever the server answers.
C30_RetriesBounded == []RetryDiscipline /\ <>RequestEnded

\* the server answered 429 four times: three sleeps, then FigmaRateLimitError
C30_Witness ==
    /\ Cardinality(RequestIndices) = 4
    /\ \A i \in RequestIndices : request_log[i].status = 429
    /\ Len(request_log) = 7
    /\ request_outcome = Raised("FigmaRateLimitError")

-----------------------------------------------------------------------------
(* Properties of the cached client calls (SpecCache) *)

\* C26: a call of get_file or get_file_nodes on a client constructed with
\* use_cache=False is never answered from the cache and stores nothing in
\* it, whatever clients were constructed before.
C26_NoCacheClientBypasses ==
    client_log # <<>> =>
        (~clients[client_log[1].client].use_cache =>
            (~client_log[1].hit /\ ~client_log[1].stored))

-----------------------------------------------------------------------------
(* Properties of the watch command (SpecWatchFair) *)

\* the file at Figma changed after the initial sync
ChangedSinceSync == last_modified # <<>> /\ remote # last_modified[1]

RegeneratedFrom(c, version) ==
    /\ regenerated[c.node_id] # <<>>
    /\ regenerated[c.node_id][1].fed = version
    /\ Succeeded(regenerated[c.node_id][1].outcome)

AllRegenerated ==
    \A i \in 1..Len(watch_components) : RegeneratedFrom(watch_components[i], remote)

\* C27: when the file's lastModified changes after the initial sync and the
\* watch keeps running, a later iteration regenerates every configured
\* component from the changed file data.
C27_ChangeRegenerated == ChangedSinceSync ~> AllRegenerated

-----------------------------------------------------------------------------
(* Properties of regeneration (SpecRegenerate) *)

\* how many lines of the text are line, indentation aside
Occurrences(text, line) ==
    Cardinality({ i \in 1..Len(text) : StripChar(text[i], " ") = StripChar(line, " ") })

OnceEach(text, code) == \A i \in 1..Len(code) : Occurrences(text, code[i]) = 1

====
